---------------------------- MODULE Spec2Model ----------------------------
(***************************************************************************)
(* A model of the encryptor pipeline (hkessock/encryptor): the chunk codec *)
(* (AES-GCM per chunk), the container header (HLI + JSON), the chunk plan, *)
(* the read / execute / write stages with their workers, and the conductor *)
(* runPipelineJob.  Files are sequences of bytes (0..255).  The harness    *)
(* runs an Encrypt job and then a Decrypt job on its output, as the        *)
(* end-to-end test of the repository does.                                 *)
(*                                                                         *)
(* Scaling: one "MB" is BytesPerMB bytes instead of 1024*1024, so that     *)
(* whole files fit in a state.  Everything else keeps its real size (the   *)
(* 12-byte nonce, the 16-byte tag, the textual JSON header, bufio's 4096). *)
(*                                                                         *)
(* Library code (crypto/cipher GCM, encoding/json, bufio) is modelled by   *)
(* what it does to bytes: GCM as a keyed stream plus a keyed 16-byte tag   *)
(* that is recomputed and compared on Open, JSON by a marshaller and a     *)
(* scanner/decoder for flat objects, bufio.Writer by its Write/Flush       *)
(* algorithm.                                                              *)
(***************************************************************************)
EXTENDS Integers, Sequences, FiniteSets, TLC

(***************************************************************************)
(* Bounds of the model.                                                    *)
(***************************************************************************)
BytesPerMB == 2
MaxFileSize == 5
MaxChunkMB == 2
MaxReaders == 2
MaxExecutors == 2
MaxKeys == 2
MaxNonce == 2
MaxFaultAt == 2
FaultFileSize == 3
MaxChunkOpt == 100
MaxPartWorkers == 4
MaxPartChunks == 5
MaxFlightSize == 9
MaxWriters == 4

(***************************************************************************)
(* Program constants.                                                      *)
(***************************************************************************)
AESNonceSize == 12
AESTagSize == 16
KeyLen == 32
BufioSize == 4096
MinHeaderFile == 3
PipelineCap == 3
Uint8Max == 255

Byte == 0..255

Min(a, b) == IF a < b THEN a ELSE b

RECURSIVE SumSeq(_)
SumSeq(s) == IF s = <<>> THEN 0 ELSE s[1] + SumSeq(Tail(s))

RECURSIVE Flatten(_)
Flatten(ss) == IF ss = <<>> THEN <<>> ELSE ss[1] \o Flatten(Tail(ss))

(***************************************************************************)
(* Errors are tuples: NoErr is Go's nil, Err(kind) a non-nil error.        *)
(***************************************************************************)
NoErr == <<>>
Err(kind) == <<kind>>
Wrap(stage, e) == <<stage>> \o e

(***************************************************************************)
(* The chunk codec.  GCM is a library: Seal(dst = nonce, nonce, pt) gives  *)
(* nonce || ct || tag with |ct| = |pt|; Open recomputes the tag over the   *)
(* key, the nonce and ct and fails when it differs or when fewer than 16   *)
(* bytes follow the nonce.  The tag is a position-weighted sum, so that it *)
(* changes whenever one byte of the nonce or of ct changes, and with the   *)
(* key.                                                                    *)
(***************************************************************************)
Keystream(key, nonce, j) == (SumSeq(key) + SumSeq(nonce) + 7 * j) % 256

RECURSIVE WeightedSum(_, _, _)
WeightedSum(x, t, i) ==
    IF i > Len(x) THEN 0 ELSE (i + t) * x[i] + WeightedSum(x, t, i + 1)

GCMTag(key, nonce, ct) ==
    [t \in 1..AESTagSize |->
        (3 * SumSeq(key) + 5 * t + Len(ct) + WeightedSum(nonce \o ct, t, 1)) % 256]

GCMSeal(key, nonce, pt) ==
    LET ct == [j \in 1..Len(pt) |-> (pt[j] + Keystream(key, nonce, j)) % 256]
    IN  nonce \o ct \o GCMTag(key, nonce, ct)

GCMOpen(key, nonce, sealed) ==
    IF Len(sealed) < AESTagSize
    THEN [ok |-> FALSE, data |-> <<>>]
    ELSE LET n  == Len(sealed) - AESTagSize
             ct == SubSeq(sealed, 1, n)
             tg == SubSeq(sealed, n + 1, Len(sealed))
         IN  IF tg = GCMTag(key, nonce, ct)
             THEN [ok |-> TRUE,
                   data |-> [j \in 1..n |->
                               (ct[j] + 256 - Keystream(key, nonce, j)) % 256]]
             ELSE [ok |-> FALSE, data |-> <<>>]

\* What rand.Reader can yield for one nonce: outcome r of the generator.
NonceOf(r) == [i \in 1..AESNonceSize |-> (r + i) % 256]

\* A seal under a nonce that is not drawn: the same one for every blob.
encryptBlobAESGCM256FixedNonce(blob, key, rngOk, r) ==
    IF Len(key) # KeyLen THEN [err |-> Err("keysize"), data |-> <<>>, panic |-> FALSE]
    ELSE IF ~rngOk THEN [err |-> Err("rng"), data |-> <<>>, panic |-> FALSE]
    ELSE [err |-> NoErr, data |-> GCMSeal(key, NonceOf(0), blob), panic |-> FALSE]

\* encryptBlobAESGCM256: rngOk is whether reading rand.Reader succeeded.
encryptBlobAESGCM256(blob, key, rngOk, r) ==
    IF Len(key) # KeyLen THEN [err |-> Err("keysize"), data |-> <<>>, panic |-> FALSE]
    ELSE IF ~rngOk THEN [err |-> Err("rng"), data |-> <<>>, panic |-> FALSE]
    ELSE [err |-> NoErr, data |-> GCMSeal(key, NonceOf(r), blob), panic |-> FALSE]

\* decryptBlobAESGCM256: (*blob)[:nonceSize] panics on a blob shorter than the nonce.
decryptBlobAESGCM256(blob, key) ==
    IF Len(key) # KeyLen THEN [err |-> Err("keysize"), data |-> <<>>, panic |-> FALSE]
    ELSE IF Len(blob) < AESNonceSize
    THEN [err |-> NoErr, data |-> <<>>, panic |-> TRUE]
    ELSE LET o == GCMOpen(key, SubSeq(blob, 1, AESNonceSize),
                          SubSeq(blob, AESNonceSize + 1, Len(blob)))
         IN  IF o.ok THEN [err |-> NoErr, data |-> o.data, panic |-> FALSE]
             ELSE [err |-> Err("auth"), data |-> <<>>, panic |-> FALSE]


(***************************************************************************)
(* The container header.  Text is a sequence of character codes.           *)
(***************************************************************************)
StrFormatVersion == <<70, 111, 114, 109, 97, 116, 86, 101, 114, 115, 105, 111, 110>>
StrNumChunks == <<78, 117, 109, 67, 104, 117, 110, 107, 115>>
StrChunkSizeBytes == <<67, 104, 117, 110, 107, 83, 105, 122, 101, 66, 121, 116, 101, 115>>
StrAlgorithm == <<65, 108, 103, 111, 114, 105, 116, 104, 109>>
StrMode == <<77, 111, 100, 101>>
StrKeySize == <<75, 101, 121, 83, 105, 122, 101>>
StrVersion10 == <<49, 46, 48>>
StrAES == <<65, 69, 83>>
StrGCM == <<71, 67, 77>>

\* EncryptedFileHeader{}: Go's zero value.
ZeroHeader ==
    [FormatVersion |-> <<>>, NumChunks |-> 0, ChunkSizeBytes |-> 0,
     Algorithm |-> <<>>, Mode |-> <<>>, KeySize |-> 0]

bytesFromMB(mb) == mb * BytesPerMB

\* The header writeStage builds for an encryption.
NewHeader(numChunks, chunkSizeMB) ==
    [FormatVersion |-> StrVersion10, NumChunks |-> numChunks,
     ChunkSizeBytes |-> bytesFromMB(chunkSizeMB),
     Algorithm |-> StrAES, Mode |-> StrGCM, KeySize |-> 256]

RECURSIVE Decimal(_)
Decimal(n) ==
    IF n < 0 THEN <<45>> \o Decimal(0 - n)
    ELSE IF n < 10 THEN <<48 + n>>
    ELSE Decimal(n \div 10) \o <<48 + (n % 10)>>

Quoted(str) == <<34>> \o str \o <<34>>
Member(name, val) == Quoted(name) \o <<58>> \o val

\* json.Marshal of the struct: the fields in declaration order, no spaces.
\* (The header's strings hold no character that Marshal escapes.)
JsonMarshal(h) ==
    <<123>> \o Member(StrFormatVersion, Quoted(h.FormatVersion)) \o <<44>>
            \o Member(StrNumChunks, Decimal(h.NumChunks)) \o <<44>>
            \o Member(StrChunkSizeBytes, Decimal(h.ChunkSizeBytes)) \o <<44>>
            \o Member(StrAlgorithm, Quoted(h.Algorithm)) \o <<44>>
            \o Member(StrMode, Quoted(h.Mode)) \o <<44>>
            \o Member(StrKeySize, Decimal(h.KeySize)) \o <<125>>

\* Two bytes, high byte first.
bytesFromUint16BigEndian(num) == <<(num \div 256) % 256, num % 256>>

\* binary.Write(LittleEndian, uint16): two bytes, low byte first.
bytesFromUint16(num) == <<num % 256, (num \div 256) % 256>>

\* binary.LittleEndian.Uint16 of the first two bytes.
uint16FromBytes(data) == data[1] + 256 * data[2]

\* getCompleteEncryptedFileHeaderAsBytes: HLI = uint16(len(json)), then the JSON.
getCompleteEncryptedFileHeaderAsBytes(h) ==
    LET jsonBytes == JsonMarshal(h)
    IN  bytesFromUint16(Len(jsonBytes) % 65536) \o jsonBytes

(***************************************************************************)
(* json.Unmarshal into EncryptedFileHeader, for flat objects: the whole    *)
(* input must be one valid JSON value; keys match the field names without  *)
(* regard to case; unknown keys are skipped; a later duplicate overrides;  *)
(* null leaves a field alone; a value of the wrong kind (or a number that  *)
(* does not fit the field) is an error.  Nested objects and arrays are     *)
(* reported as errors (no input of the model holds a well-formed one).     *)
(***************************************************************************)
IsWS(c) == c \in {32, 9, 10, 13}
IsDigit(c) == c >= 48 /\ c <= 57
IsHex(c) == IsDigit(c) \/ (c >= 65 /\ c <= 70) \/ (c >= 97 /\ c <= 102)
Fold(c) == IF c >= 65 /\ c <= 90 THEN c + 32 ELSE c
FoldStr(str) == [i \in 1..Len(str) |-> Fold(str[i])]
At(s, i) == IF i >= 1 /\ i <= Len(s) THEN s[i] ELSE 0 - 1
MaxDigits == 9

RECURSIVE SkipWS(_, _)
SkipWS(s, i) == IF IsWS(At(s, i)) THEN SkipWS(s, i + 1) ELSE i

\* The escaped character after a backslash, or -1.
Unescape(c) ==
    CASE c = 34 -> 34 [] c = 92 -> 92 [] c = 47 -> 47 [] c = 98 -> 8
      [] c = 102 -> 12 [] c = 110 -> 10 [] c = 114 -> 13 [] c = 116 -> 9
      [] OTHER -> 0 - 1

\* A string literal whose opening quote is at i - 1.
RECURSIVE ScanString(_, _, _)
ScanString(s, i, acc) ==
    LET c == At(s, i)
        bad == [ok |-> FALSE, val |-> <<>>, next |-> i]
    IN  IF c < 32 THEN bad
        ELSE IF c = 34 THEN [ok |-> TRUE, val |-> acc, next |-> i + 1]
        ELSE IF c = 92
        THEN IF Unescape(At(s, i + 1)) >= 0
             THEN ScanString(s, i + 2, Append(acc, Unescape(At(s, i + 1))))
             ELSE IF At(s, i + 1) = 117 /\ \A k \in 2..5 : IsHex(At(s, i + k))
             THEN ScanString(s, i + 6, Append(acc, 65533))
             ELSE bad
        ELSE ScanString(s, i + 1, Append(acc, c))

RECURSIVE SkipDigits(_, _)
SkipDigits(s, i) == IF IsDigit(At(s, i)) THEN SkipDigits(s, i + 1) ELSE i

RECURSIVE DigitsValue(_, _, _)
DigitsValue(s, i, j) ==
    IF i >= j THEN 0 ELSE (s[j - 1] - 48) + 10 * DigitsValue(s, i, j - 1)

\* A number starting at i: -? (0 | [1-9][0-9]*) (. [0-9]+)? ([eE] [+-]? [0-9]+)?
ScanNumber(s, i) ==
    LET neg == At(s, i) = 45
        d0 == IF neg THEN i + 1 ELSE i
        d1 == IF At(s, d0) = 48 THEN d0 + 1 ELSE SkipDigits(s, d0)
        hasFrac == At(s, d1) = 46
        f1 == IF hasFrac THEN SkipDigits(s, d1 + 1) ELSE d1
        fracOk == ~hasFrac \/ f1 > d1 + 1
        hasExp == At(s, f1) \in {101, 69}
        e0 == IF hasExp THEN (IF At(s, f1 + 1) \in {43, 45} THEN f1 + 2 ELSE f1 + 1)
              ELSE f1
        e1 == IF hasExp THEN SkipDigits(s, e0) ELSE f1
        expOk == ~hasExp \/ e1 > e0
    IN  [ok |-> d1 > d0 /\ fracOk /\ expOk,
         kind |-> "number",
         isInt |-> ~hasFrac /\ ~hasExp,
         neg |-> neg,
         fits |-> d1 - d0 <= MaxDigits,
         val |-> IF d1 > d0 /\ d1 - d0 <= MaxDigits THEN DigitsValue(s, d0, d1) ELSE 0,
         next |-> e1]

Literal(s, i, word) ==
    /\ i + Len(word) - 1 <= Len(s)
    /\ SubSeq(s, i, i + Len(word) - 1) = word

\* One value starting at i.
ScanValue(s, i) ==
    LET c == At(s, i)
        bad == [ok |-> FALSE, kind |-> "bad", next |-> i]
    IN  IF c = 34
        THEN LET r == ScanString(s, i + 1, <<>>)
             IN  [ok |-> r.ok, kind |-> "string", val |-> r.val, next |-> r.next]
        ELSE IF c = 45 \/ IsDigit(c) THEN ScanNumber(s, i)
        ELSE IF Literal(s, i, <<116, 114, 117, 101>>)
        THEN [ok |-> TRUE, kind |-> "bool", next |-> i + 4]
        ELSE IF Literal(s, i, <<102, 97, 108, 115, 101>>)
        THEN [ok |-> TRUE, kind |-> "bool", next |-> i + 5]
        ELSE IF Literal(s, i, <<110, 117, 108, 108>>)
        THEN [ok |-> TRUE, kind |-> "null", next |-> i + 4]
        ELSE bad

\* Whether value v fits a string field / an unsigned field / a signed field.
StringFieldOk(v) == v.kind \in {"string", "null"}
UintFieldOk(v) == v.kind = "null" \/ (v.kind = "number" /\ v.isInt /\ ~v.neg /\ v.fits)
IntFieldOk(v) == v.kind = "null" \/ (v.kind = "number" /\ v.isInt /\ v.fits)
IntOf(v) == IF v.neg THEN 0 - v.val ELSE v.val

\* The header after decoding member key: v into it, and whether it fitted.
AssignField(h, key, v) ==
    LET k == FoldStr(key)
    IN  IF k = FoldStr(StrFormatVersion)
        THEN [h |-> IF v.kind = "string" THEN [h EXCEPT !.FormatVersion = v.val] ELSE h,
              ok |-> StringFieldOk(v)]
        ELSE IF k = FoldStr(StrNumChunks)
        THEN [h |-> IF v.kind = "number" /\ UintFieldOk(v)
                    THEN [h EXCEPT !.NumChunks = v.val] ELSE h,
              ok |-> UintFieldOk(v)]
        ELSE IF k = FoldStr(StrChunkSizeBytes)
        THEN [h |-> IF v.kind = "number" /\ IntFieldOk(v)
                    THEN [h EXCEPT !.ChunkSizeBytes = IntOf(v)] ELSE h,
              ok |-> IntFieldOk(v)]
        ELSE IF k = FoldStr(StrAlgorithm)
        THEN [h |-> IF v.kind = "string" THEN [h EXCEPT !.Algorithm = v.val] ELSE h,
              ok |-> StringFieldOk(v)]
        ELSE IF k = FoldStr(StrMode)
        THEN [h |-> IF v.kind = "string" THEN [h EXCEPT !.Mode = v.val] ELSE h,
              ok |-> StringFieldOk(v)]
        ELSE IF k = FoldStr(StrKeySize)
        THEN [h |-> IF v.kind = "number" /\ IntFieldOk(v)
                    THEN [h EXCEPT !.KeySize = IntOf(v)] ELSE h,
              ok |-> IntFieldOk(v)]
        ELSE [h |-> h, ok |-> TRUE]

\* The members of an object, the first key's opening quote expected at i.  The
\* decoder state is (h, typesOk): the header so far and whether every value
\* fitted its field.
RECURSIVE ScanMembers(_, _, _, _)

BadMembers(i) == [ok |-> FALSE, h |-> ZeroHeader, next |-> i]

\* After member a was assigned, the separator expected at sep.
MemberNext(s, typesOk, a, sep) ==
    IF At(s, sep) = 44
    THEN ScanMembers(s, SkipWS(s, sep + 1), a.h, typesOk /\ a.ok)
    ELSE IF At(s, sep) = 125
    THEN [ok |-> typesOk /\ a.ok, h |-> a.h, next |-> sep + 1]
    ELSE BadMembers(sep)

\* After the value v of member key was scanned.
MemberValue(s, h, typesOk, key, v) ==
    IF ~v.ok THEN BadMembers(v.next)
    ELSE MemberNext(s, typesOk, AssignField(h, key.val, v), SkipWS(s, v.next))

\* After the key was scanned, the colon expected at colon.
MemberKey(s, h, typesOk, key, colon) ==
    IF ~key.ok \/ At(s, colon) # 58 THEN BadMembers(colon)
    ELSE MemberValue(s, h, typesOk, key, ScanValue(s, SkipWS(s, colon + 1)))

MemberColon(s, h, typesOk, key) == MemberKey(s, h, typesOk, key, SkipWS(s, key.next))

ScanMembers(s, i, h, typesOk) ==
    IF At(s, i) # 34 THEN BadMembers(i)
    ELSE MemberColon(s, h, typesOk, ScanString(s, i + 1, <<>>))

\* The result of json.Unmarshal for an object whose members scanned as r:
\* nothing but white space may follow.
ObjectResult(data, r) ==
    IF r.ok /\ SkipWS(data, r.next) > Len(data)
    THEN [ok |-> TRUE, h |-> r.h]
    ELSE [ok |-> FALSE, h |-> ZeroHeader]

\* The top-level value at i, j being where the text goes on after an opening
\* brace and white space.
TopValue(data, i, j) ==
    IF At(data, i) = 123
    THEN ObjectResult(data, IF At(data, j) = 125
                            THEN [ok |-> TRUE, h |-> ZeroHeader, next |-> j + 1]
                            ELSE ScanMembers(data, j, ZeroHeader, TRUE))
    ELSE IF Literal(data, i, <<110, 117, 108, 108>>) /\ SkipWS(data, i + 4) > Len(data)
    THEN [ok |-> TRUE, h |-> ZeroHeader]
    ELSE [ok |-> FALSE, h |-> ZeroHeader]

TopValueAt(data, i) == TopValue(data, i, SkipWS(data, i + 1))

\* encryptionHeaderFromBytes: json.Unmarshal(data, &header).
encryptionHeaderFromBytes(data) == TopValueAt(data, SkipWS(data, 1))

\* The offset of the end of the header without the two bytes of the indicator.
HeaderFromFileResultNoHLI(r, headerLength) ==
    IF r.ok
    THEN [err |-> NoErr, h |-> r.h, endOfHeader |-> headerLength]
    ELSE [err |-> Err("format"), h |-> ZeroHeader, endOfHeader |-> 0]

\* The return values of getEncryptedFileHeaderFromFile, r being what
\* encryptionHeaderFromBytes made of the headerLength bytes after the indicator.
HeaderFromFileResult(r, headerLength) ==
    IF r.ok
    THEN [err |-> NoErr, h |-> r.h, endOfHeader |-> 2 + headerLength]
    ELSE [err |-> Err("format"), h |-> ZeroHeader, endOfHeader |-> 0]

\* The header taken from what bytes there are after the indicator.
HeaderOfLengthUnchecked(file, headerLength) ==
    HeaderFromFileResult(
        encryptionHeaderFromBytes(SubSeq(file, 3, Min(Len(file), 2 + headerLength))),
        headerLength)

\* The header of headerLength bytes after the indicator (lines 83-97): an
\* error when the file has fewer.
HeaderOfLength(file, headerLength) ==
    IF 2 + headerLength > Len(file)
    THEN [err |-> Err("format"), h |-> ZeroHeader, endOfHeader |-> 0]
    ELSE HeaderFromFileResult(
             encryptionHeaderFromBytes(SubSeq(file, 3, 2 + headerLength)), headerLength)

\* getEncryptedFileHeaderFromFile on a file that could be opened: the header and
\* the offset of the end of the header.
getEncryptedFileHeaderFromFile(file) ==
    IF Len(file) < MinHeaderFile
    THEN [err |-> Err("format"), h |-> ZeroHeader, endOfHeader |-> 0]
    ELSE HeaderOfLength(file, uint16FromBytes(file))

(***************************************************************************)
(* bufio.Writer over the target file.  st is the writer worker's record:   *)
(* buf is what bufio holds, berr bufio's sticky error, fileOk whether      *)
(* os.Create gave a file, out the bytes the file has received, calls the   *)
(* number of writes made to the file, failAt the write to the file that    *)
(* fails (0: none).                                                        *)
(***************************************************************************)
FileWrite(st, p) ==
    LET k == st.calls + 1
    IN  IF st.fileOk /\ st.failAt # k
        THEN [st EXCEPT !.calls = k, !.out = @ \o p]
        ELSE [st EXCEPT !.calls = k, !.berr = Err("write")]

\* (*bufio.Writer).Flush
BufioFlush(st) ==
    IF st.berr # NoErr \/ st.buf = <<>> THEN st
    ELSE LET w == FileWrite(st, st.buf)
         IN  IF w.berr = NoErr THEN [w EXCEPT !.buf = <<>>] ELSE w

\* (*bufio.Writer).Write: the error it returns is the sticky error afterwards.
RECURSIVE BufioWrite(_, _)
BufioWrite(st, p) ==
    LET avail == BufioSize - Len(st.buf)
    IN  IF Len(p) > avail /\ st.berr = NoErr
        THEN IF st.buf = <<>>
             THEN LET w == FileWrite(st, p)
                  IN  IF w.berr = NoErr THEN BufioWrite(w, <<>>) ELSE w
             ELSE BufioWrite(BufioFlush([st EXCEPT !.buf = @ \o SubSeq(p, 1, avail)]),
                             SubSeq(p, avail + 1, Len(p)))
        ELSE IF st.berr # NoErr THEN st
        ELSE [st EXCEPT !.buf = @ \o p]

(***************************************************************************)
(* Channels: buf holds what was sent and not yet received (at most cap     *)
(* values), closed whether close() was called.                             *)
(***************************************************************************)
NewChan == [buf |-> <<>>, closed |-> FALSE]
\* A send that needs room for one value more than it puts.
CanSendUnbuffered(ch, cap) == ch.closed \/ Len(ch.buf) < cap - 1

\* A send proceeds when there is room; on a closed channel it panics at once.
CanSend(ch, cap) == ch.closed \/ Len(ch.buf) < cap
\* A receive proceeds when a value is buffered or the channel is closed.
CanRecv(ch) == ch.buf # <<>> \/ ch.closed

(***************************************************************************)
(* The chunk plan of readStage, for the 0-based chunk i.                   *)
(***************************************************************************)
\* The plan without the clamp of the last range to the end of the file.
ChunkRequestUnclamped(op, i, chunkSizeBytes, endOfHeader, size) ==
    LET stride == AESNonceSize + chunkSizeBytes + AESTagSize
        start == IF op = "Encryption" THEN i * chunkSizeBytes
                 ELSE endOfHeader + i * stride
    IN  [ChunkID |-> i + 1, RangeStart |-> start,
         RangeEnd |-> IF op = "Encryption" THEN start + chunkSizeBytes
                      ELSE start + stride]

ChunkRequest(op, i, chunkSizeBytes, endOfHeader, size) ==
    LET stride == AESNonceSize + chunkSizeBytes + AESTagSize
        start == IF op = "Encryption" THEN i * chunkSizeBytes
                 ELSE endOfHeader + i * stride
        end == IF op = "Encryption" THEN start + chunkSizeBytes ELSE start + stride
    IN  [ChunkID |-> i + 1, RangeStart |-> start,
         RangeEnd |-> IF end >= size THEN size ELSE end]

\* The worker works on chunk i when it is the only worker or i is its id
\* modulo the number of workers.
ClaimsWithoutWrap(i, id, numWorkers) ==
    numWorkers = 1 \/ i % numWorkers = id

\* The partition of the chunks among the workers: whether worker id of
\* numWorkers works on chunk i (1-based).
Claims(i, id, numWorkers) ==
    LET idMatch == IF id = numWorkers THEN 0 ELSE id
    IN  i % numWorkers = idMatch

\* Every chunk taken for the worker's own.
NextClaimAny(i, id, numWorkers, n) == i

\* The first chunk from i on that the worker works on, or n + 1.
RECURSIVE NextClaim(_, _, _, _)
NextClaim(i, id, numWorkers, n) ==
    IF i > n \/ Claims(i, id, numWorkers) THEN i
    ELSE NextClaim(i + 1, id, numWorkers, n)

(***************************************************************************)
(* The state.                                                              *)
(***************************************************************************)
VARIABLES
    plan,             \* the scenario of the run: the two jobs' options, the faults
    options,          \* the EncryptorOptions a job is created from
    files,            \* the file system: name -> [exists, data]
    jobNo,            \* 1: the Encrypt job, 2: the Decrypt job on its output
    job,              \* the PipelineJob runPipelineJob is running
    cond,             \* runPipelineJob: its position and locals
    results,          \* what runPipelineJob returned, per job
    pipelineErrors,   \* the stage-completion channel (capacity 3)
    readChannels,     \* per chunk: the request slot
    executeChannels,  \* per chunk: the read-to-transform slot
    writeChannels,    \* per chunk: the transform-to-write slot
    stage,            \* readStage, executeStage, writeStage: position and locals
    workerErrors,     \* the stages' aggregation channels
    readers,          \* the read workers
    executors,        \* the execute workers
    writers,          \* the write workers
    ghost             \* history: what the writer accepted, which failures occurred

vars == <<plan, options, files, jobNo, job, cond, results, pipelineErrors, readChannels,
          executeChannels, writeChannels, stage, workerErrors, readers, executors,
          writers, ghost>>

\* Key material of n bytes.
KeyOfLen(k, n) == [i \in 1..n |-> k]
Key(k) == KeyOfLen(k, KeyLen)

\* The empty file name.
EmptyName == ""
PlainByte(seed, i) == (65 + 16 * seed + i) % 256
PlainFile(seed, size) == [i \in 1..size |-> PlainByte(seed, i)]
OldData == <<111, 108, 100>>
NoFault == [job |-> 0, kind |-> "none", at |-> 0]

Fault(kind, at) ==
    plan.fault.job = jobNo /\ plan.fault.kind = kind /\ plan.fault.at = at

\* pipelineJobFromOpts for the two jobs of the end-to-end run.
EncryptJob(p) ==
    [NumReaders |-> p.R, NumExecutors |-> p.T, NumWriters |-> p.W,
     SourceFilename |-> IF p.blank = "source" THEN EmptyName ELSE "src",
     TargetFilename |-> IF p.blank = "target" THEN EmptyName ELSE "enc",
     ForceOperation |-> p.force1, ChunkSizeMB |-> p.encMB,
     Operation |-> "Encryption", KeyMaterial |-> KeyOfLen(p.encKey, p.keyLen)]

DecryptJob(p) ==
    [NumReaders |-> p.R, NumExecutors |-> p.T, NumWriters |-> p.W,
     SourceFilename |-> "enc", TargetFilename |-> "dec",
     ForceOperation |-> p.force2, ChunkSizeMB |-> p.decMB,
     Operation |-> "Decryption", KeyMaterial |-> Key(p.decKey)]

IdleStage ==
    [pc |-> "idle", got |-> 0, err |-> NoErr, numWorkers |-> 0,
     header |-> ZeroHeader]
IdleStages == [read |-> IdleStage, exec |-> IdleStage, write |-> IdleStage]
NoWorkerErrors == [read |-> NewChan, exec |-> NewChan, write |-> NewChan]
NewCond ==
    [pc |-> "start", i |-> 0, recvd |-> <<>>, numChunks |-> 0, size |-> 0,
     endOfHeader |-> 0]
NoResult == [state |-> "none", err |-> NoErr]
NoGhost == [written |-> <<>>, events |-> {}]

(***************************************************************************)
(* The options of the command line and the job made of them.               *)
(***************************************************************************)
ReadersLimit == 30
ExecutorsLimit == 60
WritersLimit == 1
ChunkSizeMin == 1
ChunkSizeMax == 64

\* The options before the command line is parsed (initializeOptions).
initializeOptions ==
    [SourceFilename |-> EmptyName, TargetFilename |-> EmptyName,
     Operation |-> "Encryption", KeyHex |-> <<>>, Password |-> <<>>,
     ChunkSizeMB |-> 8, Readers |-> 6, Executors |-> 12, Writers |-> 1,
     ForceOperation |-> FALSE]

\* The value with its upper bound only.
ClampAbove(v, lo, hi) == Min(v, hi)

\* math.Max(lo, math.Min(v, hi)), as processOpts applies it to a value out of
\* [lo, hi].
Clamp(v, lo, hi) == IF Min(v, hi) < lo THEN lo ELSE Min(v, hi)

\* processOpts after the command line is parsed into o: the constraints on the
\* worker counts and the chunk size (lines 107-124).
processOpts(o) ==
    [o EXCEPT
       !.Readers = IF @ < 1 \/ @ > ReadersLimit THEN Clamp(@, 1, ReadersLimit) ELSE @,
       !.Executors = IF @ < 1 \/ @ > ExecutorsLimit
                     THEN Clamp(@, 1, ExecutorsLimit) ELSE @,
       !.Writers = IF @ < 1 \/ @ > WritersLimit THEN Clamp(@, 1, WritersLimit) ELSE @,
       !.ChunkSizeMB = IF @ < ChunkSizeMin \/ @ > ChunkSizeMax
                       THEN Clamp(@, ChunkSizeMin, ChunkSizeMax) ELSE @]

\* The value of a hexadecimal digit, or -1.
HexVal(c) ==
    IF c >= 48 /\ c <= 57 THEN c - 48
    ELSE IF c >= 97 /\ c <= 102 THEN c - 87
    ELSE IF c >= 65 /\ c <= 70 THEN c - 55
    ELSE -1

\* hex.DecodeString: an error for a digit that is none and for an odd length.
HexDecode(s) ==
    IF \E i \in 1..Len(s) : HexVal(s[i]) < 0 THEN [err |-> Err("hexdigit"), data |-> <<>>]
    ELSE IF Len(s) % 2 # 0 THEN [err |-> Err("hexlength"), data |-> <<>>]
    ELSE [err |-> NoErr,
          data |-> [i \in 1..(Len(s) \div 2) |->
                      16 * HexVal(s[2 * i - 1]) + HexVal(s[2 * i])]]

\* generateKey256FromString: the key PBKDF2 derives from a password is one of
\* 32 bytes.
generateKey256FromString(keyMaterial) ==
    [err |-> NoErr,
     key |-> [i \in 1..KeyLen |-> (SumSeq(keyMaterial) + i) % 256]]

\* The key material pipelineJobFromOpts takes from the options (lines 45-58).
KeyMaterialOf(o) ==
    IF o.KeyHex # <<>>
    THEN IF HexDecode(o.KeyHex).err # NoErr
         THEN [err |-> Err("keyhex"), key |-> <<>>]
         ELSE [err |-> NoErr, key |-> HexDecode(o.KeyHex).data]
    ELSE IF o.Password # <<>>
    THEN IF generateKey256FromString(o.Password).err # NoErr
         THEN [err |-> Err("password"), key |-> <<>>]
         ELSE generateKey256FromString(o.Password)
    ELSE [err |-> NoErr, key |-> <<>>]

\* Key material of at most 32 bytes taken.
KeyLengthAtMost(n) == n <= KeyLen

\* Whether pipelineJobFromOpts takes key material of this length (line 61).
KeyLengthOk(n) == n = KeyLen

\* The job of the options, without its key.
JobOfOptions(o) ==
    [NumReaders |-> o.Readers, NumExecutors |-> o.Executors,
     NumWriters |-> o.Writers, SourceFilename |-> o.SourceFilename,
     TargetFilename |-> o.TargetFilename, ForceOperation |-> o.ForceOperation,
     ChunkSizeMB |-> o.ChunkSizeMB, Operation |-> o.Operation,
     KeyMaterial |-> <<>>]

pipelineJobFromOpts(o) ==
    IF KeyMaterialOf(o).err # NoErr
    THEN [err |-> KeyMaterialOf(o).err, job |-> JobOfOptions(initializeOptions)]
    ELSE IF ~KeyLengthOk(Len(KeyMaterialOf(o).key))
    THEN [err |-> Err("keysize"), job |-> JobOfOptions(initializeOptions)]
    ELSE [err |-> NoErr,
          job |-> [JobOfOptions(o) EXCEPT !.KeyMaterial = KeyMaterialOf(o).key]]

InitWith(p, o, pc) ==
    /\ plan = p
    /\ options = o
    /\ files = [f \in {"src", "enc", "dec"} |->
                  IF f = "src" THEN [exists |-> p.srcExists,
                                     data |-> PlainFile(p.seed, p.size)]
                  ELSE IF (f = "enc" /\ p.encOld) \/ (f = "dec" /\ p.decOld)
                  THEN [exists |-> TRUE, data |-> OldData]
                  ELSE [exists |-> FALSE, data |-> <<>>]]
    /\ jobNo = 1
    /\ job = EncryptJob(p)
    /\ cond = [NewCond EXCEPT !.pc = pc]
    /\ results = [j \in 1..2 |-> NoResult]
    /\ pipelineErrors = <<>>
    /\ readChannels = <<>>
    /\ executeChannels = <<>>
    /\ writeChannels = <<>>
    /\ stage = IdleStages
    /\ workerErrors = NoWorkerErrors
    /\ readers = <<>>
    /\ executors = <<>>
    /\ writers = <<>>
    /\ ghost = NoGhost

\* A run that starts at runPipelineJob with the job of the plan.
InitPlan(p) == InitWith(p, initializeOptions, "start")

Panicked == cond.pc = "panicked"

\* A panic in any goroutine ends the process.
Panic ==
    /\ cond' = [cond EXCEPT !.pc = "panicked"]
    /\ results' = [results EXCEPT ![jobNo] = [state |-> "panic", err |-> NoErr]]

NoPanic == UNCHANGED <<cond, results>>

\* runPipelineJob returns e, its locals being c.
ReturnFrom(c, e) ==
    /\ cond' = [c EXCEPT !.pc = "returned"]
    /\ results' = [results EXCEPT ![jobNo] =
                     [state |-> IF e = NoErr THEN "ok" ELSE "error", err |-> e]]

(***************************************************************************)
(* The goroutines.  A step of a goroutine runs from one blocking channel   *)
(* receive to the next: what lies between (file reads, the codec, sends    *)
(* into slots that have room) touches nothing another goroutine can see    *)
(* before the step ends.  A send that finds its slot full leaves the       *)
(* goroutine waiting at the send.  Starting a goroutine is part of the     *)
(* step that executes the go statement.                                    *)
(***************************************************************************)
\* A read worker as it reaches its loop or returns (readWorker lines 19-48):
\* the source opened, at the first chunk it works on.
NewReader(w, nw, n, openErr) ==
    LET first == NextClaim(1, w, nw, n)
    IN  IF openErr = NoErr
        THEN [pc |-> IF first > n THEN "exit" ELSE "recv", i |-> first, err |-> NoErr,
              data |-> <<>>, fd |-> TRUE]
        ELSE [pc |-> "exit", i |-> 0, err |-> openErr, data |-> <<>>, fd |-> FALSE]

\* What os.Open of the source returns to read worker w (readWorker lines
\* 25-37): nil, or one of its errors.  With the fault "opens" the source is
\* taken away while the workers open it: the open of worker plan.fault.at
\* fails for its permissions, that of every other worker for a missing file.
OpenError(w) ==
    IF ~files[job.SourceFilename].exists \/ Fault("open", w) THEN Err("open")
    ELSE IF plan.fault.job = jobNo /\ plan.fault.kind = "opens"
    THEN IF w = plan.fault.at THEN Err("permission") ELSE Err("notexist")
    ELSE NoErr

\* An execute worker as its goroutine starts: at the first chunk it works on.
NewExecutor(w, nw, n) ==
    LET first == NextClaim(1, w, nw, n)
    IN  [pc |-> IF first > n THEN "exit" ELSE "recv", i |-> first, err |-> NoErr,
         data |-> <<>>, fd |-> FALSE]

NewWriter ==
    [pc |-> "start", i |-> 0, err |-> NoErr, fd |-> FALSE, fileOk |-> FALSE,
     buf |-> <<>>, berr |-> NoErr, out |-> <<>>, calls |-> 0, failAt |-> 0]

\* A write stage that runs the workers the job asks for.
WriteWorkerCountRequested(requested) == requested

\* The number of write workers writeStage runs, whatever the job asks for
\* (writeStage line 137).
WriteWorkerCount(requested) == 1

\* readStage up to its go statements (lines 18-28).
StartReadStage(j) == [IdleStage EXCEPT !.pc = "seed", !.numWorkers = j.NumReaders]

\* executeStage up to its collecting loop (lines 98-111): a key that is not 32
\* bytes long ends the stage at once; a stage without workers has nothing to
\* collect.
StartExecuteStage(j) ==
    IF Len(j.KeyMaterial) # KeyLen
    THEN [IdleStage EXCEPT !.pc = "done", !.err = Err("keysize")]
    ELSE [IdleStage EXCEPT !.pc = IF j.NumExecutors = 0 THEN "done" ELSE "collect",
                           !.numWorkers = j.NumExecutors]

\* writeStage up to its collecting loop (lines 129-172).
StartWriteStage(j, numChunks) ==
    [IdleStage EXCEPT !.pc = "collect",
                      !.numWorkers = WriteWorkerCount(j.NumWriters),
                      !.header = IF j.Operation = "Encryption"
                                 THEN NewHeader(numChunks, j.ChunkSizeMB)
                                 ELSE ZeroHeader]

\* One chunk more than the whole chunks of the file.
NumChunksAndOne(sizeBytes, chunkSizeBytes) == (sizeBytes \div chunkSizeBytes) + 1

(***************************************************************************)
(* runPipelineJob.                                                         *)
(***************************************************************************)
\* The number of chunks of an encryption (lines 113-120).
NumChunksOf(sizeBytes, chunkSizeBytes) ==
    (sizeBytes \div chunkSizeBytes) + (IF sizeBytes % chunkSizeBytes # 0 THEN 1 ELSE 0)

\* Lines 138-188: the slots made and the three stages started.
StartStages(sizeBytes, numChunks, endOfHeader) ==
    /\ cond' = [cond EXCEPT !.pc = "wait", !.numChunks = numChunks,
                            !.size = sizeBytes, !.endOfHeader = endOfHeader]
    /\ readChannels' = [i \in 1..numChunks |-> NewChan]
    /\ executeChannels' = [i \in 1..numChunks |-> NewChan]
    /\ writeChannels' = [i \in 1..numChunks |-> NewChan]
    /\ stage' = [read |-> StartReadStage(job), exec |-> StartExecuteStage(job),
                 write |-> StartWriteStage(job, numChunks)]
    /\ pipelineErrors' = IF Len(job.KeyMaterial) # KeyLen THEN <<Err("keysize")>>
                         ELSE IF job.NumExecutors = 0 THEN <<NoErr>> ELSE <<>>
    /\ readers' = [w \in 1..job.NumReaders |->
                     NewReader(w, job.NumReaders, numChunks, OpenError(w))]
    /\ executors' = IF Len(job.KeyMaterial) = KeyLen
                    THEN [w \in 1..job.NumExecutors |->
                            NewExecutor(w, job.NumExecutors, numChunks)]
                    ELSE <<>>
    /\ writers' = [w \in 1..WriteWorkerCount(job.NumWriters) |-> NewWriter]
    /\ UNCHANGED results

(***************************************************************************)
(* From the command line to the job (main, lines 22 and 56).               *)
(***************************************************************************)
\* processOpts applied to the options the command line was parsed into, which
\* the history keeps.
ProcessOpts ==
    /\ cond.pc = "opts"
    /\ options' = processOpts(options)
    /\ cond' = [cond EXCEPT !.pc = "create"]
    /\ ghost' = [ghost EXCEPT !.events = @ \cup {<<"commandline", options>>}]
    /\ UNCHANGED <<plan, files, jobNo, job, results, pipelineErrors, readChannels,
                   executeChannels, writeChannels, stage, workerErrors, readers,
                   executors, writers>>

\* pipelineJobFromOpts applied to the options: the job runPipelineJob is then
\* given, or an error and no job.
CreateJob ==
    /\ cond.pc = "create"
    /\ IF pipelineJobFromOpts(options).err # NoErr
       THEN /\ cond' = [cond EXCEPT !.pc = "rejected"]
            /\ results' = [results EXCEPT ![jobNo] =
                             [state |-> "nojob",
                              err |-> pipelineJobFromOpts(options).err]]
            /\ UNCHANGED job
       ELSE /\ cond' = [cond EXCEPT !.pc = "start"]
            /\ job' = pipelineJobFromOpts(options).job
            /\ UNCHANGED results
    /\ UNCHANGED <<plan, options, files, jobNo, pipelineErrors, readChannels,
                   executeChannels, writeChannels, stage, workerErrors, readers,
                   executors, writers, ghost>>

NotStarted ==
    UNCHANGED <<readChannels, executeChannels, writeChannels, stage, pipelineErrors,
                readers, executors, writers>>

\* A decryption that starts its stages whatever reading the header returned.
StartDecryptionUnchecked(sizeBytes, hdr) ==
    StartStages(sizeBytes, hdr.h.NumChunks, hdr.endOfHeader)

\* Lines 125-134: the header of a decryption gives the number of chunks.
StartDecryption(sizeBytes, hdr) ==
    IF hdr.err # NoErr
    THEN ReturnFrom(cond, Wrap("header", hdr.err)) /\ NotStarted
    ELSE StartStages(sizeBytes, hdr.h.NumChunks, hdr.endOfHeader)

\* Lines 87-188: stat, the number of chunks, the header of a decryption, the
\* slots, and the three stages started.
ConductorStart ==
    /\ cond.pc = "start"
    /\ IF job.SourceFilename = EmptyName
       THEN ReturnFrom(cond, Err("emptyname")) /\ NotStarted
       ELSE IF ~files[job.SourceFilename].exists \/ Fault("stat", 0)
       THEN ReturnFrom(cond, Err("stat")) /\ NotStarted
       ELSE IF bytesFromMB(job.ChunkSizeMB) = 0
       THEN Panic /\ NotStarted
       ELSE IF job.Operation = "Decryption"
       THEN StartDecryption(Len(files[job.SourceFilename].data),
                getEncryptedFileHeaderFromFile(files[job.SourceFilename].data))
       ELSE StartStages(Len(files[job.SourceFilename].data),
                NumChunksOf(Len(files[job.SourceFilename].data),
                            bytesFromMB(job.ChunkSizeMB)), 0)
    /\ UNCHANGED <<plan, options, files, jobNo, job, workerErrors, ghost>>

\* The verdict of a conductor that goes on receiving until the third
\* completion.
ConductorVerdictAfterThree(e, i) ==
    IF i < PipelineCap THEN "wait" ELSE IF e # NoErr THEN "error" ELSE "ok"

\* What runPipelineJob does with a completion e received as its i-th (lines
\* 191-198): "error" for an error, "ok" after the third nil, else "wait".
ConductorVerdict(e, i) ==
    IF e # NoErr THEN "error" ELSE IF i = PipelineCap THEN "ok" ELSE "wait"

\* Lines 190-198: up to three receives; the first error is returned at once.
ConductorReceive ==
    /\ cond.pc = "wait"
    /\ pipelineErrors # <<>>
    /\ pipelineErrors' = Tail(pipelineErrors)
    /\ LET e == Head(pipelineErrors)
           c == [cond EXCEPT !.recvd = Append(@, e), !.i = @ + 1]
           v == ConductorVerdict(e, c.i)
       IN  IF v = "error" THEN ReturnFrom(c, Wrap("pipeline", e))
           ELSE IF v = "ok" THEN ReturnFrom(c, NoErr)
           ELSE cond' = c /\ UNCHANGED results
    /\ UNCHANGED <<plan, options, files, jobNo, job, readChannels, executeChannels,
                   writeChannels, stage, workerErrors, readers, executors, writers,
                   ghost>>

ConductorStep == ConductorStart \/ ConductorReceive

(***************************************************************************)
(* The stages.                                                             *)
(***************************************************************************)
Event(e) == ghost' = [ghost EXCEPT !.events = @ \cup {e}]

\* The stage's err after a worker's completion e was received (readStage lines
\* 85-88, executeStage 116-119, writeStage 175-178).
StageError(err, e, label) == IF e # NoErr THEN Wrap(label, e) ELSE err

\* Whether the stage can receive a worker's completion and, after the last
\* one, send its own.
CollectReady(name) ==
    /\ stage[name].pc = "collect"
    /\ workerErrors[name].buf # <<>>
    /\ stage[name].got + 1 < stage[name].numWorkers
          \/ Len(pipelineErrors) < PipelineCap

\* One completion received from the stage's workers; after the last one the
\* stage's own completion is sent on return (the deferred send).
Collect(name, label) ==
    LET st == stage[name]
        ch == workerErrors[name]
        err == StageError(st.err, Head(ch.buf), label)
        last == st.got + 1 = st.numWorkers
    IN  /\ CollectReady(name)
        /\ workerErrors' = [workerErrors EXCEPT ![name] =
                              [buf |-> Tail(ch.buf), closed |-> last]]
        /\ stage' = [stage EXCEPT ![name] =
                       [st EXCEPT !.got = @ + 1, !.err = err,
                                  !.pc = IF last THEN "done" ELSE "collect"]]
        /\ pipelineErrors' = IF last THEN Append(pipelineErrors, err)
                             ELSE pipelineErrors

\* Whether readStage can seed: every slot takes its request (or is closed, and
\* the send panics), and a stage that returns at once can send its completion.
SeedReady ==
    /\ stage.read.pc = "seed"
    /\ \A i \in 1..Len(readChannels) : CanSend(readChannels[i], 1)
    /\ \/ \E i \in 1..Len(readChannels) : readChannels[i].closed
       \/ Len(pipelineErrors) < PipelineCap
       \/ /\ stage.read.numWorkers > 0
          /\ Len(readChannels) = 0 \/ job.Operation \in {"Encryption", "Decryption"}

\* readStage: every request seeded (lines 39-82), then one worker completion
\* collected per step (lines 84-92), the stage's completion sent on return
\* (line 19).
ReadStageStep ==
    LET st == stage.read
        n == Len(readChannels)
        requests == [i \in 1..n |->
                        ChunkRequest(job.Operation, i - 1, bytesFromMB(job.ChunkSizeMB),
                                     cond.endOfHeader, cond.size)]
    IN  /\ ~Panicked
        /\ \/ /\ SeedReady
              /\ IF \E i \in 1..n : readChannels[i].closed
                 THEN /\ Panic
                      /\ UNCHANGED <<readChannels, stage, pipelineErrors>>
                 ELSE IF n > 0 /\ job.Operation \notin {"Encryption", "Decryption"}
                 THEN /\ Len(pipelineErrors) < PipelineCap
                      /\ pipelineErrors' = Append(pipelineErrors, Err("operation"))
                      /\ stage' = [stage EXCEPT !.read =
                                     [st EXCEPT !.pc = "done", !.err = Err("operation")]]
                      /\ NoPanic
                      /\ UNCHANGED readChannels
                 ELSE /\ readChannels' = [i \in 1..n |->
                            [readChannels[i] EXCEPT !.buf = Append(@, requests[i])]]
                      /\ st.numWorkers > 0 \/ Len(pipelineErrors) < PipelineCap
                      /\ stage' = [stage EXCEPT !.read =
                            [st EXCEPT !.pc = IF st.numWorkers = 0 THEN "done"
                                              ELSE "collect"]]
                      /\ pipelineErrors' = IF st.numWorkers = 0
                                           THEN Append(pipelineErrors, st.err)
                                           ELSE pipelineErrors
                      /\ NoPanic
              /\ UNCHANGED workerErrors
           \/ /\ Collect("read", "read worker")
              /\ NoPanic
              /\ UNCHANGED readChannels
        /\ UNCHANGED <<plan, options, files, jobNo, job, executeChannels, writeChannels,
                       readers, executors, writers, ghost>>

\* executeStage: one worker completion collected per step (lines 115-123), the
\* stage's completion sent on return (line 99).
ExecuteStageStep ==
    /\ ~Panicked
    /\ Collect("exec", "execute worker")
    /\ UNCHANGED <<plan, options, files, jobNo, job, cond, results, readChannels,
                   executeChannels, writeChannels, readers, executors, writers, ghost>>

\* writeStage: one worker completion collected per step (lines 174-182), the
\* stage's completion sent on return (line 131).
WriteStageStep ==
    /\ ~Panicked
    /\ Collect("write", "write worker")
    /\ UNCHANGED <<plan, options, files, jobNo, job, cond, results, readChannels,
                   executeChannels, writeChannels, readers, executors, writers, ghost>>

\* Whether a worker between two channel operations can go on: pc is where it
\* is, i its chunk, in the slots it receives from and out the slots it sends to.
WorkerReady(name, me, in, out) ==
    CASE me.pc = "start" -> TRUE
      [] me.pc = "recv" -> CanRecv(in[me.i])
      [] me.pc = "send" -> CanSend(out[me.i], 1)
      [] me.pc = "exit" -> CanSend(workerErrors[name], stage[name].numWorkers)
      [] OTHER -> FALSE

\* A worker's deferred completion send into its stage's aggregation channel.
Complete(name, e) ==
    LET ch == workerErrors[name]
    IN  IF ch.closed
        THEN Panic /\ UNCHANGED workerErrors
        ELSE /\ workerErrors' = [workerErrors EXCEPT ![name].buf = Append(@, e)]
             /\ NoPanic

\* A worker that returns runs its deferred calls at once when its completion
\* finds room: Retired is the worker afterwards, Reported the aggregation
\* channels.
CompletesNow(name, me) ==
    /\ me.pc = "exit"
    /\ ~workerErrors[name].closed
    /\ Len(workerErrors[name].buf) < stage[name].numWorkers

\* A worker that sends its completion and keeps its file open.
RetiredHolding(name, me) ==
    IF CompletesNow(name, me) THEN [me EXCEPT !.pc = "done"] ELSE me

Retired(name, me) ==
    IF CompletesNow(name, me) THEN [me EXCEPT !.pc = "done", !.fd = FALSE] ELSE me

Reported(name, me) ==
    IF CompletesNow(name, me)
    THEN [workerErrors EXCEPT ![name].buf = Append(@, me.err)]
    ELSE workerErrors

(***************************************************************************)
(* readWorker.                                                             *)
(***************************************************************************)
\* What io.ReadFull can read of the file from offset start into a buffer of
\* bytesToRead bytes.
ReadAt(data, start, bytesToRead) ==
    SubSeq(data, start + 1, Min(Len(data), start + bytesToRead))

\* The error readWorker's deferred send reports after a seek or a read failed
\* with e inside the loop (lines 57-72): e is assigned to the err that := declares
\* inside the loop, and the deferred send at line 16 sends the function's err.
ReadFailureReported(fnErr, e) == fnErr

\* The worker after chunk me.i is handed on, or while the slot has no room.
Handed(me, sent, next, n) ==
    IF sent
    THEN [me EXCEPT !.data = <<>>, !.i = next, !.pc = IF next > n THEN "exit" ELSE "recv"]
    ELSE [me EXCEPT !.pc = "send"]

ReaderBecomes(w, after) ==
    /\ readers' = [readers EXCEPT ![w] = Retired("read", after)]
    /\ workerErrors' = Reported("read", after)

\* Lines 57-75 for the request taken from slot me.i.
ReadChunk(w, me, request, next) ==
    LET bytesToRead == request.RangeEnd - request.RangeStart
        out == executeChannels[me.i]
        got == ReadAt(files[job.SourceFilename].data, request.RangeStart, bytesToRead)
    IN  IF Fault("seek", me.i)
        THEN /\ ReaderBecomes(w, [me EXCEPT !.pc = "exit",
                    !.err = ReadFailureReported(me.err, Err("seek"))])
             /\ Event(<<"readfail", me.i>>)
             /\ NoPanic
             /\ UNCHANGED executeChannels
        ELSE IF bytesToRead < 0
        THEN \* make([]byte, bytesToRead)
             /\ Panic
             /\ UNCHANGED <<executeChannels, readers, workerErrors, ghost>>
        ELSE IF Fault("short", me.i) \/ Len(got) # bytesToRead
        THEN /\ ReaderBecomes(w, [me EXCEPT !.pc = "exit",
                    !.err = ReadFailureReported(me.err, Err("read"))])
             /\ Event(<<"readfail", me.i>>)
             /\ NoPanic
             /\ UNCHANGED executeChannels
        ELSE IF out.closed
        THEN /\ Panic
             /\ UNCHANGED <<executeChannels, readers, workerErrors, ghost>>
        ELSE /\ ReaderBecomes(w, Handed([me EXCEPT !.data = got], CanSend(out, 1),
                                        next, Len(readChannels)))
             /\ executeChannels' = IF CanSend(out, 1)
                                   THEN [executeChannels EXCEPT
                                           ![me.i].buf = Append(@, got)]
                                   ELSE executeChannels
             /\ NoPanic
             /\ UNCHANGED ghost

\* readWorker: per chunk it works on, the request taken, the slot closed, the
\* range read and the buffer sent (lines 50-75); its completion sent after the
\* file is closed (lines 16, 39-41).
ReadWorkerStep(w) ==
    LET me == readers[w]
        n == Len(readChannels)
        next == NextClaim(me.i + 1, w, stage.read.numWorkers, n)
    IN  /\ ~Panicked
        /\ WorkerReady("read", me, readChannels, executeChannels)
        /\ CASE me.pc = "recv" ->
                  /\ IF readChannels[me.i].buf = <<>>
                     THEN \* received from a closed slot: a nil request
                          /\ Panic
                          /\ UNCHANGED <<readChannels, executeChannels, readers,
                                         workerErrors, ghost>>
                     ELSE /\ readChannels' = [readChannels EXCEPT ![me.i] =
                                                [buf |-> <<>>, closed |-> TRUE]]
                          /\ ReadChunk(w, me, Head(readChannels[me.i].buf), next)
             [] me.pc = "send" ->
                  /\ IF executeChannels[me.i].closed
                     THEN /\ Panic
                          /\ UNCHANGED <<executeChannels, readers, workerErrors>>
                     ELSE /\ executeChannels' = [executeChannels EXCEPT
                                ![me.i].buf = Append(@, me.data)]
                          /\ ReaderBecomes(w, Handed(me, TRUE, next, n))
                          /\ NoPanic
                  /\ UNCHANGED <<readChannels, ghost>>
             [] me.pc = "exit" ->
                  /\ Complete("read", me.err)
                  /\ readers' = [readers EXCEPT ![w] =
                        [me EXCEPT !.pc = "done", !.fd = FALSE]]
                  /\ UNCHANGED <<readChannels, executeChannels, ghost>>
             [] OTHER -> FALSE
        /\ UNCHANGED <<plan, options, files, jobNo, job, pipelineErrors, writeChannels, stage,
                       executors, writers>>

(***************************************************************************)
(* executeWorker.                                                          *)
(***************************************************************************)
\* The codec call of executeWorker (lines 104-111).
Transform(op, blob, key, rngOk, r) ==
    IF op = "Encryption" THEN encryptBlobAESGCM256(blob, key, rngOk, r)
    ELSE IF op = "Decryption" THEN decryptBlobAESGCM256(blob, key)
    ELSE [err |-> Err("operation"), data |-> <<>>, panic |-> FALSE]

\* What executeWorker's err is after the codec returned e (lines 113-116).
CodecError(e) == IF e # NoErr THEN Wrap("codec", e) ELSE NoErr

\* What crypto/rand gives for the nonce of chunk i in this run.
RandFor(i) == plan.rng * i

ExecutorBecomes(w, after) ==
    /\ executors' = [executors EXCEPT ![w] = Retired("exec", after)]
    /\ workerErrors' = Reported("exec", after)

\* Lines 104-118 for the codec's result res on the buffer taken from slot me.i.
ExecuteChunk(w, me, res, next) ==
    LET out == writeChannels[me.i]
    IN  IF res.panic \/ (res.err = NoErr /\ out.closed)
        THEN /\ Panic
             /\ UNCHANGED <<writeChannels, executors, workerErrors, ghost>>
        ELSE IF res.err # NoErr
        THEN /\ ExecutorBecomes(w, [me EXCEPT !.pc = "exit",
                                              !.err = CodecError(res.err)])
             /\ Event(<<"codecfail", me.i>>)
             /\ NoPanic
             /\ UNCHANGED writeChannels
        ELSE /\ ExecutorBecomes(w, Handed([me EXCEPT !.data = res.data],
                                          CanSend(out, 1), next, Len(executeChannels)))
             /\ writeChannels' = IF CanSend(out, 1)
                                 THEN [writeChannels EXCEPT
                                         ![me.i].buf = Append(@, res.data)]
                                 ELSE writeChannels
             /\ NoPanic
             /\ UNCHANGED ghost

\* executeWorker: per chunk it works on, the buffer taken, the slot closed,
\* the codec applied and the result sent (lines 97-118); its completion sent
\* on return (line 89).
ExecuteWorkerStep(w) ==
    LET me == executors[w]
        n == Len(executeChannels)
        next == NextClaim(me.i + 1, w, stage.exec.numWorkers, n)
    IN  /\ ~Panicked
        /\ WorkerReady("exec", me, executeChannels, writeChannels)
        /\ CASE me.pc = "recv" ->
                  /\ IF executeChannels[me.i].buf = <<>>
                     THEN \* received from a closed slot: nil, and a second close
                          /\ Panic
                          /\ UNCHANGED <<executeChannels, writeChannels, executors,
                                         workerErrors, ghost>>
                     ELSE /\ executeChannels' = [executeChannels EXCEPT ![me.i] =
                                                   [buf |-> <<>>, closed |-> TRUE]]
                          /\ ExecuteChunk(w, me,
                                Transform(job.Operation, Head(executeChannels[me.i].buf),
                                          job.KeyMaterial, ~Fault("rng", me.i),
                                          RandFor(me.i)),
                                next)
             [] me.pc = "send" ->
                  /\ IF writeChannels[me.i].closed
                     THEN /\ Panic
                          /\ UNCHANGED <<writeChannels, executors, workerErrors>>
                     ELSE /\ writeChannels' = [writeChannels EXCEPT
                                ![me.i].buf = Append(@, me.data)]
                          /\ ExecutorBecomes(w, Handed(me, TRUE, next, n))
                          /\ NoPanic
                  /\ UNCHANGED <<executeChannels, ghost>>
             [] me.pc = "exit" ->
                  /\ Complete("exec", me.err)
                  /\ executors' = [executors EXCEPT ![w] = [me EXCEPT !.pc = "done"]]
                  /\ UNCHANGED <<executeChannels, writeChannels, ghost>>
             [] OTHER -> FALSE
        /\ UNCHANGED <<plan, options, files, jobNo, job, pipelineErrors, readChannels, stage,
                       readers, writers>>

(***************************************************************************)
(* writeWorker.                                                            *)
(***************************************************************************)
\* A writer that takes itself for one of two workers.
WriteOrderSkipping(i, w, nw, n) == NextClaim(i, w, nw + 1, n)

\* The order in which the writer's loop visits the slots (line 200).
WriteOrderNext(i, w, nw, n) == NextClaim(i, w, nw, n)

\* Whether writeWorker refuses to touch the target (line 145).
OverwriteRefused(fileExists, force) == fileExists /\ ~force

\* The error writeWorker's deferred send reports after a write or a flush
\* failed with e (lines 181, 188, 213, 217-219): e is assigned to the err that :=
\* declares inside the if / for block, and the deferred send at line 126 sends
\* the function's err, which after line 155 is the error of os.Create.
WriteFailureReported(fnErr, e) == fnErr

WriterBecomes(w, after) ==
    /\ writers' = [writers EXCEPT ![w] = Retired("write", after)]
    /\ workerErrors' = Reported("write", after)

\* The worker as os.Create returned (lines 155-168).
Opened(me, created) ==
    [me EXCEPT !.fd = created, !.fileOk = created,
               !.err = IF created THEN NoErr ELSE Err("create"),
               !.failAt = IF plan.fault.job = jobNo /\ plan.fault.kind = "write"
                          THEN plan.fault.at ELSE 0]

\* Lines 178-198: the header handed to bufio by the worker st, which then
\* enters its loop.
WriteHeader(w, fnErr, st, first, n) ==
    IF st.berr # NoErr
    THEN /\ WriterBecomes(w, [st EXCEPT !.pc = "exit",
                !.err = WriteFailureReported(fnErr, Err("write"))])
         /\ Event(<<"writefail", 0>>)
    ELSE /\ WriterBecomes(w, [st EXCEPT !.i = first,
                                        !.pc = IF first > n THEN "exit" ELSE "recv"])
         /\ IF st.fileOk THEN UNCHANGED ghost ELSE Event(<<"createfail", 0>>)

\* Lines 211-220 for the buffer chunkData taken from slot me.i: wrote is the
\* worker after writer.Write, flushed after writer.Flush.
WriteChunk(w, me, chunkData, wrote, flushed, next, n) ==
    IF wrote.berr # NoErr
    THEN /\ WriterBecomes(w, [wrote EXCEPT !.pc = "exit",
                !.err = WriteFailureReported(me.err, Err("write"))])
         /\ files' = [files EXCEPT ![job.TargetFilename].data =
                         IF me.fileOk THEN wrote.out ELSE @]
         /\ Event(<<"writefail", me.i>>)
    ELSE /\ WriterBecomes(w, [flushed EXCEPT
                !.i = next,
                !.err = IF flushed.berr # NoErr
                        THEN WriteFailureReported(me.err, Err("flush")) ELSE me.err,
                !.pc = IF next > n THEN "exit" ELSE "recv"])
         /\ files' = [files EXCEPT ![job.TargetFilename].data =
                         IF me.fileOk THEN flushed.out ELSE @]
         /\ ghost' = [ghost EXCEPT
                         !.written = Append(@, [id |-> me.i, data |-> chunkData]),
                         !.events = IF flushed.berr # NoErr
                                    THEN @ \cup {<<"writefail", me.i>>} ELSE @]

WriteAndFlush(w, me, chunkData, wrote, next, n) ==
    WriteChunk(w, me, chunkData, wrote, BufioFlush(wrote), next, n)

\* writeWorker: stat, the overwrite guard, create, the header (lines 128-198);
\* per chunk the buffer taken, the slot closed, written and flushed (lines
\* 200-220); the file closed and the completion sent (lines 126, 161-166).
\* A failed os.Create does not return (lines 156-158): the worker goes on with
\* a nil file.
WriteWorkerStep(w) ==
    LET me == writers[w]
        n == Len(writeChannels)
        nw == stage.write.numWorkers
        name == job.TargetFilename
    IN  /\ ~Panicked
        /\ WorkerReady("write", me, writeChannels, <<>>)
        /\ CASE me.pc = "start" ->
                  /\ IF name = EmptyName
                     THEN /\ WriterBecomes(w, [me EXCEPT !.pc = "exit",
                                                        !.err = Err("emptyname")])
                          /\ UNCHANGED <<files, ghost>>
                     ELSE IF Fault("statperm", 0)
                     THEN /\ WriterBecomes(w, [me EXCEPT !.pc = "exit",
                                                        !.err = Err("permission")])
                          /\ UNCHANGED <<files, ghost>>
                     ELSE IF OverwriteRefused(files[name].exists, job.ForceOperation)
                     THEN /\ WriterBecomes(w, [me EXCEPT !.pc = "exit",
                                                        !.err = Err("exists")])
                          /\ Event(<<"refused", 0>>)
                          /\ UNCHANGED files
                     ELSE /\ files' = IF Fault("create", 0) THEN files
                                      ELSE [files EXCEPT ![name] =
                                              [exists |-> TRUE, data |-> <<>>]]
                          /\ WriteHeader(w, Opened(me, ~Fault("create", 0)).err,
                                IF job.Operation = "Encryption"
                                THEN BufioWrite(Opened(me, ~Fault("create", 0)),
                                        getCompleteEncryptedFileHeaderAsBytes(
                                            stage.write.header))
                                ELSE Opened(me, ~Fault("create", 0)),
                                WriteOrderNext(1, w, nw, n), n)
                  /\ NoPanic
                  /\ UNCHANGED writeChannels
             [] me.pc = "recv" ->
                  /\ IF writeChannels[me.i].buf = <<>>
                     THEN /\ Panic
                          /\ UNCHANGED <<writeChannels, writers, workerErrors, files,
                                         ghost>>
                     ELSE /\ writeChannels' = [writeChannels EXCEPT ![me.i] =
                                                 [buf |-> <<>>, closed |-> TRUE]]
                          /\ NoPanic
                          /\ WriteAndFlush(w, me, Head(writeChannels[me.i].buf),
                                BufioWrite(me, Head(writeChannels[me.i].buf)),
                                WriteOrderNext(me.i + 1, w, nw, n), n)
             [] me.pc = "exit" ->
                  /\ Complete("write", me.err)
                  /\ writers' = [writers EXCEPT ![w] =
                        [me EXCEPT !.pc = "done", !.fd = FALSE]]
                  /\ UNCHANGED <<writeChannels, files, ghost>>
             [] OTHER -> FALSE
        /\ UNCHANGED <<plan, options, jobNo, job, pipelineErrors, readChannels, executeChannels,
                       stage, readers, executors>>

(***************************************************************************)
(* The end-to-end run: after the Encrypt job returned nil, the Decrypt job *)
(* on its output (integration_test.go, Test_EndToEnd_Files).  With         *)
(* plan.tamper one byte of the encrypted file is changed in between.       *)
(***************************************************************************)
TamperBytes == {0, 32, 34, 48, 49, 57, 110, 255}

\* The Encrypt job returned nil.
EncryptDone ==
    /\ jobNo = 1
    /\ cond.pc = "returned"
    /\ results[1].state = "ok"

StartDecrypt ==
    /\ EncryptDone
    /\ jobNo' = 2
    /\ job' = DecryptJob(plan)
    /\ cond' = NewCond
    /\ pipelineErrors' = <<>>
    /\ readChannels' = <<>>
    /\ executeChannels' = <<>>
    /\ writeChannels' = <<>>
    /\ stage' = IdleStages
    /\ workerErrors' = NoWorkerErrors
    /\ readers' = <<>>
    /\ executors' = <<>>
    /\ writers' = <<>>
    /\ ghost' = NoGhost
    /\ IF plan.tamper
       THEN \E pos \in 1..Len(files["enc"].data) : \E v \in TamperBytes :
               /\ v # files["enc"].data[pos]
               /\ files' = [files EXCEPT !["enc"].data[pos] = v]
       ELSE UNCHANGED files
    /\ UNCHANGED <<plan, options, results>>

Next ==
    \/ ConductorStep
    \/ ReadStageStep
    \/ ExecuteStageStep
    \/ WriteStageStep
    \/ \E w \in DOMAIN readers : ReadWorkerStep(w)
    \/ \E w \in DOMAIN executors : ExecuteWorkerStep(w)
    \/ \E w \in DOMAIN writers : WriteWorkerStep(w)
    \/ StartDecrypt

(***************************************************************************)
(* Scenarios.  Every specification runs the same program; they differ in   *)
(* the runs they start from.                                               *)
(***************************************************************************)
BasePlan ==
    [size |-> 1, seed |-> 0, srcExists |-> TRUE, encKey |-> 1, decKey |-> 1,
     encMB |-> 1, decMB |-> 1, R |-> 1, T |-> 1, W |-> 1, rng |-> 1,
     force1 |-> TRUE, force2 |-> TRUE, encOld |-> FALSE, decOld |-> FALSE,
     tamper |-> FALSE, fault |-> NoFault, blank |-> "none", keyLen |-> KeyLen]

\* Fault-free end-to-end runs: every size (the empty file included), chunk
\* size, key, worker counts and nonce sequence; both jobs with the same options.
CleanPlans ==
    {[BasePlan EXCEPT !.size = s, !.encKey = k, !.decKey = k, !.encMB = mb,
                      !.decMB = mb, !.R = r, !.T = t, !.rng = g] :
        s \in 0..MaxFileSize, k \in 1..MaxKeys, mb \in 1..MaxChunkMB,
        r \in 1..MaxReaders, t \in 1..MaxExecutors, g \in 0..(MaxNonce - 1)}

Init == \E p \in CleanPlans : InitPlan(p)

Spec == Init /\ [][Next]_vars

\* Fault-free runs of non-empty files whose Decrypt job may name another chunk
\* size than the Encrypt job did.
GeometryPlans ==
    {[BasePlan EXCEPT !.size = s, !.encMB = e, !.decMB = d, !.R = r, !.T = t] :
        s \in 1..MaxFileSize, e \in 1..MaxChunkMB, d \in 1..MaxChunkMB,
        r \in {1, MaxReaders}, t \in {1, MaxExecutors}}

InitGeometry == \E p \in GeometryPlans : InitPlan(p)

SpecGeometry == InitGeometry /\ [][Next]_vars

\* Runs in which one byte of the encrypted file is changed before the Decrypt
\* job: a file of one chunk and a file of several.
TamperPlans ==
    {[BasePlan EXCEPT !.size = s, !.tamper = TRUE] : s \in {1, MaxFileSize}}

InitTamper == \E p \in TamperPlans : InitPlan(p)

SpecTamper == InitTamper /\ [][Next]_vars

\* One failure of the environment in a run: of which job, of which call, at
\* which worker (open), chunk (seek, short, rng) or write to the file (write).
Faults ==
    {NoFault}
    \cup {[job |-> j, kind |-> k, at |-> 0] :
            j \in 1..2, k \in {"stat", "statperm", "create"}}
    \cup {[job |-> j, kind |-> k, at |-> a] :
            j \in 1..2, k \in {"open", "seek", "short", "write"}, a \in 1..MaxFaultAt}
    \cup {[job |-> 1, kind |-> "rng", at |-> a] : a \in 1..MaxFaultAt}

\* The targets before the run and the jobs' force options: fresh targets;
\* an old encrypted file and no force; an old encrypted file overwritten and
\* an old decrypted file with no force; an old decrypted file overwritten.
Targets ==
    {[encOld |-> FALSE, force1 |-> FALSE, decOld |-> FALSE, force2 |-> FALSE],
     [encOld |-> TRUE, force1 |-> FALSE, decOld |-> FALSE, force2 |-> FALSE],
     [encOld |-> TRUE, force1 |-> TRUE, decOld |-> TRUE, force2 |-> FALSE],
     [encOld |-> FALSE, force1 |-> TRUE, decOld |-> TRUE, force2 |-> TRUE]}

\* Runs of a file of several chunks with at most one failure of the
\* environment, with or without the right key, over old and fresh targets.
FaultPlans ==
    {[BasePlan EXCEPT !.size = FaultFileSize, !.R = MaxReaders, !.T = MaxExecutors,
                      !.decKey = dk, !.fault = f, !.encOld = g.encOld,
                      !.force1 = g.force1, !.decOld = g.decOld,
                      !.force2 = g.force2] :
        dk \in 1..MaxKeys, f \in Faults, g \in Targets}

InitFaults == \E p \in FaultPlans : InitPlan(p)

SpecFaults == InitFaults /\ [][Next]_vars

\* Jobs handed to runPipelineJob as they are, the invalid ones among them: no
\* reader, no executor, a chunk size of 0, an empty path, a key of another
\* length than 32.
JobPlans ==
    {[BasePlan EXCEPT !.size = FaultFileSize, !.R = r, !.T = t, !.encMB = mb,
                      !.decMB = mb, !.blank = b, !.keyLen = kl] :
        r \in 0..MaxReaders, t \in 0..MaxExecutors, mb \in 0..MaxChunkMB,
        b \in {"none", "source", "target"},
        kl \in {0, KeyLen - 1, KeyLen, KeyLen + 1}}

\* Options as a command line gives them, before processOpts: worker counts
\* and chunk sizes in and out of their ranges.
OptionDraws ==
    {[initializeOptions EXCEPT !.Readers = r, !.Executors = e, !.Writers = w,
                               !.ChunkSizeMB = c, !.KeyHex = [i \in 1..(2 * KeyLen) |-> 48],
                               !.SourceFilename = "src", !.TargetFilename = "enc"] :
        r \in {0, 1, 2, ReadersLimit, ReadersLimit + 1, Uint8Max},
        e \in {0, 1, 2, ExecutorsLimit, ExecutorsLimit + 1, Uint8Max},
        w \in {0, 1, 4, Uint8Max},
        c \in {0, 1, 8, ChunkSizeMax, ChunkSizeMax + 1, MaxChunkOpt}}

\* Options as pipelineJobFromOpts is given them: no key string, or one of one
\* character (a digit, a lower or upper case hexadecimal letter, another
\* letter) of a length around that of a 32-byte key, and a password or none.
KeyDraws ==
    {[initializeOptions EXCEPT !.KeyHex = k, !.Password = pw,
                               !.SourceFilename = sn, !.TargetFilename = tn] :
        k \in {<<>>} \cup
              {[i \in 1..n |-> ch] :
                 n \in {2 * KeyLen - 2, 2 * KeyLen - 1, 2 * KeyLen, 2 * KeyLen + 2},
                 ch \in {48, 102, 70, 103}},
        pw \in {<<>>, <<112, 119>>}, sn \in {EmptyName, "src"},
        tn \in {EmptyName, "enc"}}

\* The runs of jobs: a job made for runPipelineJob directly, or options that
\* go through processOpts and pipelineJobFromOpts, or through
\* pipelineJobFromOpts alone (the source file of these is missing).
InitJobs ==
    \/ \E p \in JobPlans : InitPlan(p)
    \/ \E o \in OptionDraws : InitWith([BasePlan EXCEPT !.srcExists = FALSE], o, "opts")
    \/ \E o \in KeyDraws : InitWith([BasePlan EXCEPT !.srcExists = FALSE], o, "create")

NextJobs == ProcessOpts \/ CreateJob \/ Next

SpecJobs == InitJobs /\ [][NextJobs]_vars

\* No goroutine can take a step: the run is over, or what is left of it waits
\* forever.
Quiescent ==
    /\ cond.pc \notin {"start", "opts", "create"}
    /\ cond.pc = "wait" => pipelineErrors = <<>>
    /\ ~EncryptDone
    /\ \/ Panicked
       \/ /\ ~SeedReady
          /\ \A name \in {"read", "exec", "write"} : ~CollectReady(name)
          /\ \A w \in DOMAIN readers :
                ~WorkerReady("read", readers[w], readChannels, executeChannels)
          /\ \A w \in DOMAIN executors :
                ~WorkerReady("exec", executors[w], executeChannels, writeChannels)
          /\ \A w \in DOMAIN writers :
                ~WorkerReady("write", writers[w], writeChannels, <<>>)

(***************************************************************************)
(* The claims.                                                             *)
(***************************************************************************)
Returned(j, state) == results[j].state = state

\* Chunk k of the source of the run.
SourceChunk(k) ==
    SubSeq(files["src"].data, (k - 1) * bytesFromMB(plan.encMB) + 1,
           Min(k * bytesFromMB(plan.encMB), Len(files["src"].data)))

\* C1 (Spec): round trip.  For every non-empty source, key, chunk size and
\* reader / executor counts, the Encrypt job and then the Decrypt job with the
\* same key both return nil once the run is over, and the decrypted target is
\* byte-equal to the source; a Decrypt job never returns nil over a target that
\* differs from the source.
C1_RoundTrip ==
    /\ (plan.size > 0 /\ Quiescent) =>
          /\ jobNo = 2
          /\ Returned(1, "ok")
          /\ Returned(2, "ok")
    /\ (plan.size > 0 /\ jobNo = 2 /\ Returned(2, "ok")) =>
          /\ files["dec"].exists
          /\ files["dec"].data = files["src"].data
          /\ files["src"].data = PlainFile(plan.seed, plan.size)

\* C1 witness: a file of several chunks, a short last one among them, was
\* encrypted and decrypted by two readers and two executors.
C1_Witness ==
    /\ jobNo = 2
    /\ Returned(2, "ok")
    /\ plan.size = MaxFileSize
    /\ plan.R = MaxReaders
    /\ plan.T = MaxExecutors
    /\ cond.numChunks >= 2
    /\ plan.size % bytesFromMB(plan.encMB) # 0
    /\ files["dec"].data = PlainFile(plan.seed, plan.size)

\* What the writer wrote as chunk k, in the clear.
WrittenPlain(k) ==
    IF job.Operation = "Encryption"
    THEN decryptBlobAESGCM256(ghost.written[k].data, job.KeyMaterial).data
    ELSE ghost.written[k].data

\* The bytes that precede the chunks in the target.
TargetPrefix ==
    IF job.Operation = "Encryption"
    THEN getCompleteEncryptedFileHeaderAsBytes(stage.write.header)
    ELSE <<>>

\* C2 (Spec): output ordering.  In every interleaving the k-th buffer the
\* writer writes is the buffer of chunk k (ascending, no gap, none twice), and
\* the target holds the written buffers one after the other, each as one
\* contiguous blob.
C2_OutputOrdering ==
    /\ \A k \in 1..Len(ghost.written) :
          /\ ghost.written[k].id = k
          /\ WrittenPlain(k) = SourceChunk(k)
    /\ files[job.TargetFilename].data =
          IF ghost.written = <<>> THEN <<>>
          ELSE TargetPrefix \o Flatten([k \in 1..Len(ghost.written) |->
                                          ghost.written[k].data])

\* C2 witness: chunk 1 is written, chunk 3 is ready for the writer and chunk 2
\* is not yet.
C2_Witness ==
    /\ Len(writeChannels) >= 3
    /\ Len(ghost.written) = 1
    /\ writeChannels[3].buf # <<>>
    /\ writeChannels[2] = NewChan

\* C3 (Spec): empty-file policy.  The Encrypt job of a source of size 0 does
\* not return nil.
C3_EmptyFileRejected == plan.size = 0 => ~Returned(1, "ok")

\* C4 (SpecGeometry): decryption takes its chunk geometry from the header.
\* Whatever chunk size the Decrypt job names, it reads the number of chunks the
\* header gives, returns nil once the run is over, and its target is byte-equal
\* to the source.
C4_GeometryFromHeader ==
    /\ (jobNo = 2 /\ cond.pc # "start") =>
          cond.numChunks = NumChunksOf(plan.size, bytesFromMB(plan.encMB))
    /\ Quiescent =>
          /\ jobNo = 2
          /\ Returned(2, "ok")
          /\ files["dec"].data = files["src"].data

\* C5 (SpecTamper): authenticity.  After any single byte of the encrypted file
\* was changed, the Decrypt job with the right key does not return nil.
C5_TamperDetected == (plan.tamper /\ jobNo = 2) => ~Returned(2, "ok")

\* Whether the job that is running found its target and may not overwrite it.
GuardApplies ==
    IF jobNo = 1 THEN plan.encOld /\ ~plan.force1 ELSE plan.decOld /\ ~plan.force2

\* C6 (SpecFaults): overwrite guard.  When the target exists and the job has
\* no force, the target keeps its old content in every state, whatever the
\* readers and executors do and whichever other failure occurs; the job never
\* returns nil, and once the run is over it has returned an error.
C6_OverwriteGuard ==
    GuardApplies =>
        /\ files[job.TargetFilename] = [exists |-> TRUE, data |-> OldData]
        /\ ~Returned(jobNo, "ok")
        /\ Quiescent => Returned(jobNo, "error")

Stages == {"read", "exec", "write"}

\* C7 (SpecFaults): success requires all stages ok.  runPipelineJob returns
\* nil only after it received three nil completions, each stage having sent
\* its own; once a stage has sent an error the job never returns nil, and once
\* the run is over it has returned an error.
C7_SuccessRequiresAllStages ==
    /\ (cond.pc = "returned" /\ Returned(jobNo, "ok")) =>
          /\ cond.recvd = <<NoErr, NoErr, NoErr>>
          /\ \A s \in Stages : stage[s].pc = "done" /\ stage[s].err = NoErr
    /\ (\E s \in Stages : stage[s].pc = "done" /\ stage[s].err # NoErr) =>
          /\ ~Returned(jobNo, "ok")
          /\ Quiescent => Returned(jobNo, "error")

\* C8 (SpecFaults): read failures are job errors.  After a seek or a read of
\* chunk i failed, the read worker of that chunk has stopped with a non-nil
\* error to report, and once the run is over the read stage has reported an
\* error and the job has returned an error.
C8_ReadFailuresReported ==
    \A i \in 1..Len(readChannels) :
        <<"readfail", i>> \in ghost.events =>
            /\ \E w \in DOMAIN readers :
                  /\ readers[w].i = i
                  /\ readers[w].pc \in {"exit", "done"}
                  /\ readers[w].err # NoErr
            /\ Quiescent =>
                  /\ stage.read.pc = "done"
                  /\ stage.read.err # NoErr
                  /\ Returned(jobNo, "error")

\* C9 (SpecFaults): write failures are job errors.  After a write or a flush
\* to the target failed, the write worker has a non-nil error to report, the
\* job never returns nil, and once the run is over the write stage has
\* reported an error and the job has returned an error.
C9_WriteFailuresReported ==
    (\E i \in 0..Len(writeChannels) : <<"writefail", i>> \in ghost.events) =>
        /\ \A w \in DOMAIN writers : writers[w].err # NoErr
        /\ ~Returned(jobNo, "ok")
        /\ Quiescent =>
              /\ stage.write.pc = "done"
              /\ stage.write.err # NoErr
              /\ Returned(jobNo, "error")

\* C10 (SpecFaults): codec failures propagate.  After sealing or opening chunk
\* i failed, in every interleaving the execute worker of that chunk has
\* stopped with a non-nil error to report, nothing of chunk i was handed to the
\* writer or written, the job never returns nil, and once the run is over the
\* execute stage has reported an error and the job has returned an error.
C10_CodecFailuresPropagate ==
    \A i \in 1..Len(executeChannels) :
        <<"codecfail", i>> \in ghost.events =>
            /\ \E w \in DOMAIN executors :
                  /\ executors[w].i = i
                  /\ executors[w].pc \in {"exit", "done"}
                  /\ executors[w].err # NoErr
            /\ writeChannels[i] = NewChan
            /\ \A k \in 1..Len(ghost.written) : ghost.written[k].id # i
            /\ ~Returned(jobNo, "ok")
            /\ Quiescent =>
                  /\ stage.exec.pc = "done"
                  /\ stage.exec.err # NoErr
                  /\ Returned(jobNo, "error")

(***************************************************************************)
(* Validation of the job.                                                  *)
(***************************************************************************)
\* The job names no reader, no executor, a chunk size of 0 or an empty path.
InvalidJob ==
    \/ job.NumReaders = 0
    \/ job.NumExecutors = 0
    \/ job.ChunkSizeMB = 0
    \/ job.SourceFilename = EmptyName
    \/ job.TargetFilename = EmptyName

\* A stage of the job was started.
StageStarted ==
    \/ stage.read.pc # "idle"
    \/ stage.exec.pc # "idle"
    \/ stage.write.pc # "idle"

\* C11: a job with no reader, no executor, a chunk size of 0 or an empty path
\* is rejected with an error: no stage is ever started for it, and once
\* nothing can run any more runPipelineJob has returned an error.
C11_JobValidated ==
    (cond.pc \notin {"opts", "create", "rejected"} /\ InvalidJob) =>
        /\ ~StageStarted
        /\ Quiescent => Returned(jobNo, "error")

(***************************************************************************)
(* The length of the key.                                                  *)
(***************************************************************************)
\* pipelineJobFromOpts was given the options and has returned.
JobRequested == cond.pc \notin {"opts", "create"} /\ plan.srcExists = FALSE

\* C12: a job is made of options only with key material of exactly 32 bytes:
\* pipelineJobFromOpts returns an error and no job when the options hold
\* neither a key string nor a password, when the key string is no hexadecimal
\* string, and when it decodes to another length than 32 bytes; the job it
\* returns otherwise holds 32 bytes.  For a job whose key is not 32 bytes long
\* the execute stage ends with an error before it starts a worker, nothing is
\* written to the target, and the codec returns an error in both directions.
C12_KeyLength ==
    /\ JobRequested =>
          /\ cond.pc # "rejected" => Len(job.KeyMaterial) = KeyLen
          /\ cond.pc = "rejected" => results[jobNo].err # NoErr
          /\ (options.KeyHex = <<>> /\ options.Password = <<>>) => cond.pc = "rejected"
          /\ (options.KeyHex # <<>> /\ Len(options.KeyHex) # 2 * KeyLen)
                => cond.pc = "rejected"
    /\ Len(job.KeyMaterial) # KeyLen =>
          /\ stage.exec.pc # "idle" =>
                stage.exec.pc = "done" /\ stage.exec.err # NoErr /\ executors = <<>>
          /\ ghost.written = <<>>
          /\ ~Returned(jobNo, "ok")
          /\ encryptBlobAESGCM256(files["src"].data, job.KeyMaterial, TRUE, 1).err # NoErr
          /\ decryptBlobAESGCM256(files["src"].data, job.KeyMaterial).err # NoErr

\* The options hold a hexadecimal key string one byte short and no job was
\* made of them.
C12_Witness ==
    /\ JobRequested
    /\ cond.pc = "rejected"
    /\ Len(options.KeyHex) = 2 * KeyLen - 2
    /\ HexDecode(options.KeyHex).err = NoErr

(***************************************************************************)
(* The version of the format.                                              *)
(***************************************************************************)
\* The header of the encrypted file is read and its version is not "1.0".
UnknownVersion ==
    /\ getEncryptedFileHeaderFromFile(files["enc"].data).err = NoErr
    /\ getEncryptedFileHeaderFromFile(files["enc"].data).h.FormatVersion # StrVersion10

\* C13 (SpecTamper): a Decrypt job on a file whose header names another
\* version than "1.0" does not return nil, and once nothing can run any more
\* it has returned an error.
C13_VersionChecked ==
    (jobNo = 2 /\ UnknownVersion) =>
        /\ ~Returned(2, "ok")
        /\ Quiescent => Returned(2, "error")

(***************************************************************************)
(* The header written and read back.  A header is serialized in front of   *)
(* the bytes of the source file, as writeWorker puts it in front of the    *)
(* chunks, and the file is read as runPipelineJob reads the header of a    *)
(* decryption.  stage.write.header is the header given to the writer,      *)
(* stage.read.header the one handed to readStage.                          *)
(***************************************************************************)
\* Headers of strings that json.Marshal does not escape and of numbers of up
\* to MaxDigits digits.
HeaderDraws ==
    [FormatVersion : {StrVersion10, <<>>, <<50, 46, 48>>},
     NumChunks : {0, 1, 10, 4096, 999999999},
     ChunkSizeBytes : {0, 1, bytesFromMB(1), 1048576 * ChunkSizeMax},
     Algorithm : {StrAES, <<>>},
     Mode : {StrGCM, <<67, 66, 67>>},
     KeySize : {256, 0, 0 - 1}]

\* getCompleteEncryptedFileHeaderAsBytes of a header, written in front of the
\* bytes of the source.
SerializeHeader ==
    /\ cond.pc = "serialize"
    /\ \E h \in HeaderDraws :
          /\ stage' = [stage EXCEPT !.write.header = h]
          /\ files' = [files EXCEPT !["enc"] =
                         [exists |-> TRUE,
                          data |-> getCompleteEncryptedFileHeaderAsBytes(h)
                                      \o files["src"].data]]
    /\ cond' = [cond EXCEPT !.pc = "parse"]
    /\ UNCHANGED <<plan, options, jobNo, job, results, pipelineErrors, readChannels,
                   executeChannels, writeChannels, workerErrors, readers, executors,
                   writers, ghost>>

\* getEncryptedFileHeaderFromFile on that file (part_002, lines 125-134).
ParseHeader ==
    /\ cond.pc = "parse"
    /\ cond' = [cond EXCEPT
                  !.pc = "parsed",
                  !.endOfHeader = getEncryptedFileHeaderFromFile(files["enc"].data).endOfHeader,
                  !.numChunks = getEncryptedFileHeaderFromFile(files["enc"].data).h.NumChunks]
    /\ stage' = [stage EXCEPT
                   !.read.header = getEncryptedFileHeaderFromFile(files["enc"].data).h]
    /\ results' = [results EXCEPT ![jobNo] =
                     [state |-> "header",
                      err |-> getEncryptedFileHeaderFromFile(files["enc"].data).err]]
    /\ UNCHANGED <<plan, options, files, jobNo, job, pipelineErrors, readChannels,
                   executeChannels, writeChannels, workerErrors, readers, executors,
                   writers, ghost>>

NextHeader == SerializeHeader \/ ParseHeader

SpecHeader ==
    /\ \E s \in 0..MaxFileSize :
          InitWith([BasePlan EXCEPT !.size = s], initializeOptions, "serialize")
    /\ [][NextHeader]_vars

\* The header length indicator of the encrypted file.
HLI == uint16FromBytes(files["enc"].data)

\* C14 (SpecHeader): the serialized header is a header length indicator of two
\* bytes, low byte first, and then as many bytes of JSON (an object from its
\* opening to its closing brace) as the indicator says, after which the rest
\* of the file begins; reading the file gives no error, a header equal to the
\* one serialized, and the offset 2 + HLI.
C14_HeaderRoundTrip ==
    /\ cond.pc \in {"parse", "parsed"} =>
          /\ Len(files["enc"].data) = 2 + HLI + Len(files["src"].data)
          /\ files["enc"].data[1] = HLI % 256
          /\ files["enc"].data[2] = HLI \div 256
          /\ files["enc"].data[3] = 123
          /\ files["enc"].data[2 + HLI] = 125
          /\ SubSeq(files["enc"].data, 3 + HLI, Len(files["enc"].data)) = files["src"].data
    /\ cond.pc = "parsed" =>
          /\ results[jobNo].err = NoErr
          /\ stage.read.header = stage.write.header
          /\ cond.endOfHeader = 2 + HLI

\* A header of another version, of a number of nine digits and of a negative
\* one was serialized in front of a file and read back.
C14_Witness ==
    /\ cond.pc = "parsed"
    /\ stage.write.header.FormatVersion # StrVersion10
    /\ stage.write.header.NumChunks = 999999999
    /\ stage.write.header.KeySize < 0
    /\ files["src"].data # <<>>

(***************************************************************************)
(* The layout of the encrypted file.                                       *)
(***************************************************************************)
\* The bytes of sealed chunk i of n in a container of chunk size c whose
\* header ends at offset e, the source being of size bytes.
SealedChunkAt(data, e, c, n, size, i) ==
    SubSeq(data, e + (i - 1) * (AESNonceSize + c + AESTagSize) + 1,
           IF i < n THEN e + i * (AESNonceSize + c + AESTagSize)
           ELSE e + (n - 1) * (AESNonceSize + c + AESTagSize)
                  + AESNonceSize + (size - (n - 1) * c) + AESTagSize)

\* data is a container of the source: the header hdr read from it, of chunk
\* size c, and then hdr.h.NumChunks sealed chunks in order, full ones and a
\* last one of the rest of the source, and nothing more.
ContainerOf(data, hdr, c, key) ==
    /\ hdr.err = NoErr
    /\ SubSeq(data, 1, hdr.endOfHeader) = getCompleteEncryptedFileHeaderAsBytes(hdr.h)
    /\ hdr.h.ChunkSizeBytes = c
    /\ (hdr.h.NumChunks - 1) * c < plan.size
    /\ plan.size <= hdr.h.NumChunks * c
    /\ Len(data) = hdr.endOfHeader + hdr.h.NumChunks * (AESNonceSize + AESTagSize)
                      + plan.size
    /\ \A i \in 1..hdr.h.NumChunks :
          /\ decryptBlobAESGCM256(
                 SealedChunkAt(data, hdr.endOfHeader, c, hdr.h.NumChunks, plan.size, i),
                 key).err = NoErr
          /\ decryptBlobAESGCM256(
                 SealedChunkAt(data, hdr.endOfHeader, c, hdr.h.NumChunks, plan.size, i),
                 key).data = SourceChunk(i)

\* C15 (Spec): after the Encrypt job returned nil the target is the header and
\* then exactly header.NumChunks sealed chunks in the order of their ids, the
\* header's ChunkSizeBytes being the job's chunk size in bytes, every chunk
\* but the last of 12 + ChunkSizeBytes + 16 bytes and the last of 12 + the
\* rest of the source + 16; after the Decrypt job returned nil its target is
\* the plaintext of the chunks alone, without a header.
C15_ContainerLayout ==
    /\ (jobNo = 1 /\ Returned(1, "ok")) =>
          ContainerOf(files["enc"].data,
                      getEncryptedFileHeaderFromFile(files["enc"].data),
                      bytesFromMB(plan.encMB), Key(plan.encKey))
    /\ (jobNo = 2 /\ Returned(2, "ok")) =>
          files["dec"].data = Flatten([i \in 1..cond.numChunks |-> SourceChunk(i)])

(***************************************************************************)
(* The output and the numbers of workers.                                  *)
(***************************************************************************)
\* What encrypting the source chunk by chunk, one chunk after the other, puts
\* into the target: from the source, the key, the chunk size and the nonces
\* of the chunks alone.
ReferenceContainer ==
    IF plan.size = 0 THEN <<>>
    ELSE getCompleteEncryptedFileHeaderAsBytes(
             NewHeader(NumChunksOf(plan.size, bytesFromMB(plan.encMB)), plan.encMB))
         \o Flatten([i \in 1..NumChunksOf(plan.size, bytesFromMB(plan.encMB)) |->
                       GCMSeal(Key(plan.encKey), NonceOf(RandFor(i)), SourceChunk(i))])

\* C16 (Spec): the bytes of the target do not depend on the numbers of readers
\* and executors nor on the interleaving.  For each source, key, chunk size
\* and nonces, whenever the Encrypt job has returned nil its target is the
\* reference container, whenever the Decrypt job has returned nil its target
\* is the source, and these are the targets when nothing can run any more.
C16_WorkerIndependence ==
    /\ ((jobNo = 1 /\ Returned(1, "ok")) \/ jobNo = 2) =>
          files["enc"].data = ReferenceContainer
    /\ (jobNo = 2 /\ Returned(2, "ok")) =>
          files["dec"].data = PlainFile(plan.seed, plan.size)
    /\ Quiescent =>
          /\ files["enc"].data = ReferenceContainer
          /\ files["dec"].data = PlainFile(plan.seed, plan.size)

\* A file of three chunks was encrypted and decrypted by the largest numbers
\* of readers and executors, which share the chunks unevenly.
C16_Witness ==
    /\ jobNo = 2
    /\ Returned(2, "ok")
    /\ plan.R = MaxReaders
    /\ plan.T = MaxExecutors
    /\ cond.numChunks = 3
    /\ files["enc"].data = ReferenceContainer
    /\ files["dec"].data = files["src"].data

(***************************************************************************)
(* The chunks of an encryption.                                            *)
(***************************************************************************)
\* The request of chunk i waits in its slot.
Requested(i) == readChannels[i].buf # <<>>

\* C17 (Spec): the chunk plan of an encryption.  For a source of S > 0 bytes
\* and a chunk size of C bytes the job has ceil(S / C) chunks, and the request
\* of chunk i (counted from 1) is the range from (i - 1) * C up to the smaller
\* of i * C and S: not empty, beginning at 0 for the first chunk and where the
\* chunk before ends for the others, and ending at S for the last.
C17_EncryptionChunkPlan ==
    (jobNo = 1 /\ plan.size > 0 /\ cond.pc \notin {"start", "panicked"}) =>
        /\ (cond.numChunks - 1) * bytesFromMB(job.ChunkSizeMB) < plan.size
        /\ plan.size <= cond.numChunks * bytesFromMB(job.ChunkSizeMB)
        /\ Len(readChannels) = cond.numChunks
        /\ \A i \in 1..Len(readChannels) :
              Requested(i) =>
                 /\ Len(readChannels[i].buf) = 1
                 /\ readChannels[i].buf[1].ChunkID = i
                 /\ readChannels[i].buf[1].RangeStart = (i - 1) * bytesFromMB(job.ChunkSizeMB)
                 /\ readChannels[i].buf[1].RangeEnd =
                       Min(i * bytesFromMB(job.ChunkSizeMB), plan.size)
                 /\ readChannels[i].buf[1].RangeStart < readChannels[i].buf[1].RangeEnd
                 /\ i = cond.numChunks => readChannels[i].buf[1].RangeEnd = plan.size
                 /\ (i > 1 /\ Requested(i - 1)) =>
                       readChannels[i].buf[1].RangeStart =
                          readChannels[i - 1].buf[1].RangeEnd

\* The requests of a file of two full chunks all wait in their slots.
C17_Witness ==
    /\ jobNo = 1
    /\ cond.numChunks = 2
    /\ plan.size = 2 * bytesFromMB(job.ChunkSizeMB)
    /\ Len(readChannels) = 2
    /\ \A i \in 1..2 : Requested(i)

(***************************************************************************)
(* The ranges of the options.                                              *)
(***************************************************************************)
\* The value of lo..hi nearest to v.
Nearest(v, lo, hi) == IF v < lo THEN lo ELSE IF v > hi THEN hi ELSE v

\* The options the command line gave, once processOpts has run.
CommandLines == {e[2] : e \in {ev \in ghost.events : ev[1] = "commandline"}}

\* C18 (SpecJobs): after processOpts the number of readers is in 1..30, that
\* of executors in 1..60, that of writers is 1 and the chunk size is in 1..64,
\* whatever the command line gave: each is the value of its range nearest to
\* the one given, no option is refused, and the job made of the options has
\* these values.
C18_OptionClamping ==
    \A given \in CommandLines :
        /\ cond.pc # "rejected"
        /\ options.Readers \in 1..30
        /\ options.Executors \in 1..60
        /\ options.Writers = 1
        /\ options.ChunkSizeMB \in 1..64
        /\ options.Readers = Nearest(given.Readers, 1, 30)
        /\ options.Executors = Nearest(given.Executors, 1, 60)
        /\ options.ChunkSizeMB = Nearest(given.ChunkSizeMB, 1, 64)
        /\ options = [given EXCEPT !.Readers = options.Readers,
                                   !.Executors = options.Executors,
                                   !.Writers = options.Writers,
                                   !.ChunkSizeMB = options.ChunkSizeMB]
        /\ cond.pc # "create" =>
              /\ job.NumReaders = options.Readers
              /\ job.NumExecutors = options.Executors
              /\ job.NumWriters = options.Writers
              /\ job.ChunkSizeMB = options.ChunkSizeMB

\* A command line of no reader, 255 executors, 4 writers and a chunk size of
\* 65 MB was processed and a job was made of it.
C18_Witness ==
    /\ cond.pc = "returned"
    /\ \E given \in CommandLines :
          /\ given.Readers = 0
          /\ given.Executors = Uint8Max
          /\ given.Writers = 4
          /\ given.ChunkSizeMB = ChunkSizeMax + 1
    /\ job.NumReaders = 1
    /\ job.NumExecutors = ExecutorsLimit
    /\ job.ChunkSizeMB = ChunkSizeMax

(***************************************************************************)
(* Termination.  The Go scheduler lets a goroutine that can run take its   *)
(* step, so a run does not stop while one of them can take one: the runs   *)
(* are those of weak fairness of Next.  Every run then ends in success     *)
(* when no state in which nothing can run is short of success and no run   *)
(* goes on for ever, every step taking the goroutines further.             *)
(***************************************************************************)
\* Runs without a failure of non-empty files, by one worker and by more
\* workers than there are chunks.
FairPlans ==
    {[BasePlan EXCEPT !.size = s, !.encMB = mb, !.decMB = mb, !.R = r, !.T = t] :
        s \in 1..MaxFileSize, mb \in 1..MaxChunkMB, r \in 1..MaxReaders,
        t \in 1..MaxExecutors}

SpecFair == (\E p \in FairPlans : InitPlan(p)) /\ [][Next]_vars /\ WF_vars(Next)

\* runPipelineJob has returned nil after three nil completions, every stage
\* has sent its nil and every worker has returned.
JobSucceeded(j) ==
    /\ jobNo = j
    /\ Returned(j, "ok")
    /\ cond.recvd = <<NoErr, NoErr, NoErr>>
    /\ \A name \in {"read", "exec", "write"} :
          stage[name].pc = "done" /\ stage[name].err = NoErr
    /\ Len(readers) = plan.R /\ \A w \in DOMAIN readers : readers[w].pc = "done"
    /\ Len(executors) = plan.T /\ \A w \in DOMAIN executors : executors[w].pc = "done"
    /\ Len(writers) = 1 /\ \A w \in DOMAIN writers : writers[w].pc = "done"

\* How far a worker is: before its loop, at the receive or the send of its
\* chunk i, at its return, returned.
WorkerProgress(me) ==
    CASE me.pc = "start" -> 0
      [] me.pc = "recv" -> 2 * me.i
      [] me.pc = "send" -> 2 * me.i + 1
      [] me.pc = "exit" -> 2 * Len(writeChannels) + 2
      [] OTHER -> 2 * Len(writeChannels) + 3

\* How far a stage is.
StageProgress(st) ==
    CASE st.pc = "idle" -> 0
      [] st.pc = "seed" -> 1
      [] st.pc = "collect" -> 2 + st.got
      [] OTHER -> 3 + st.numWorkers

\* How far the goroutines of the job are, all together.
Progress ==
    (CASE cond.pc = "start" -> 0
       [] cond.pc = "wait" -> 1 + cond.i
       [] cond.pc = "returned" -> 5
       [] OTHER -> 6)
    + StageProgress(stage.read) + StageProgress(stage.exec) + StageProgress(stage.write)
    + SumSeq([w \in DOMAIN readers |-> WorkerProgress(readers[w])])
    + SumSeq([w \in DOMAIN executors |-> WorkerProgress(executors[w])])
    + SumSeq([w \in DOMAIN writers |-> WorkerProgress(writers[w])])

\* C19 (SpecFair): with no failure, for every file of one chunk or more and
\* every number of readers and executors, more than there are chunks among
\* them, every run ends with the Decrypt job succeeded after the Encrypt job:
\* every worker has returned, each of the three stages has sent nil and
\* runPipelineJob has returned nil.  A state in which no goroutine can take a
\* step is such a state (none is a deadlock), the Encrypt job has succeeded
\* in this way when the Decrypt job begins, and every step takes the job
\* further, so that no run goes on for ever.
C19_Termination ==
    /\ [](Quiescent => JobSucceeded(2))
    /\ [](EncryptDone => JobSucceeded(1))
    /\ [][/\ ~Quiescent
          /\ \/ jobNo' = jobNo + 1 /\ JobSucceeded(1)
             \/ jobNo' = jobNo /\ Progress' > Progress]_vars

\* One chunk and two readers and two executors, one of each without a chunk,
\* and the Decrypt job has succeeded.
C19_Witness ==
    /\ JobSucceeded(2)
    /\ Quiescent
    /\ cond.numChunks = 1
    /\ plan.R = 2
    /\ plan.T = 2

(***************************************************************************)
(* The completions runPipelineJob receives.                                *)
(***************************************************************************)
\* runPipelineJob has returned after it received a completion.
ReturnedFromLoop == cond.pc = "returned" /\ cond.recvd # <<>>

\* C20 as claimed (SpecFaults): runPipelineJob returns only after it received
\* the completions of all three stages, with an error as well as with nil.
C20_WaitsForAllStages == ReturnedFromLoop => Len(cond.recvd) = 3

\* C20 (SpecFaults): runPipelineJob returns the first error it receives at
\* once, whichever completions are still to come, and returns nil after
\* exactly three completions, all nil.  While it waits it has received fewer
\* than three completions, all nil; when it has returned, the completions
\* before the last one are nil, the result is an error exactly when the last
\* one is an error, and nil exactly when the last one is the third and nil.
C20_ReturnsAtFirstError ==
    /\ cond.pc = "wait" =>
          /\ Len(cond.recvd) < 3
          /\ \A k \in 1..Len(cond.recvd) : cond.recvd[k] = NoErr
    /\ ReturnedFromLoop =>
          /\ Len(cond.recvd) <= 3
          /\ \A k \in 1..(Len(cond.recvd) - 1) : cond.recvd[k] = NoErr
          /\ Returned(jobNo, "error") <=> cond.recvd[Len(cond.recvd)] # NoErr
          /\ Returned(jobNo, "ok") <=>
                (Len(cond.recvd) = 3 /\ cond.recvd[3] = NoErr)
          /\ Returned(jobNo, "error") =>
                results[jobNo].err = Wrap("pipeline", cond.recvd[Len(cond.recvd)])

\* runPipelineJob has returned the error of the first completion it received
\* while another stage has not sent its own.
C20_Witness ==
    /\ ReturnedFromLoop
    /\ Returned(jobNo, "error")
    /\ Len(cond.recvd) = 1
    /\ \E name \in {"read", "exec", "write"} : stage[name].pc = "collect"

(***************************************************************************)
(* What is left of a job after a worker failed.                            *)
(***************************************************************************)
\* A worker of the job has failed: a read, the codec, a write, the overwrite
\* guard, or any error a worker has to report.
AnyWorkerFailed ==
    \/ \E e \in ghost.events : e[1] \in {"readfail", "codecfail", "writefail", "refused"}
    \/ \E w \in DOMAIN readers : readers[w].err # NoErr
    \/ \E w \in DOMAIN executors : executors[w].err # NoErr
    \/ \E w \in DOMAIN writers : writers[w].err # NoErr

\* Every worker of every stage has returned and every stage has sent its
\* completion.
Drained ==
    /\ \A w \in DOMAIN readers : readers[w].pc = "done"
    /\ \A w \in DOMAIN executors : executors[w].pc = "done"
    /\ \A w \in DOMAIN writers : writers[w].pc = "done"
    /\ \A name \in {"read", "exec", "write"} : stage[name].pc = "done"

\* C21 (SpecFaults): after a worker failed the other stages drain.  Once no
\* goroutine can take a step any more, every worker of every stage has
\* returned and every stage has sent its completion: no worker is left
\* waiting on a slot that nobody fills.
C21_DrainsAfterError == (AnyWorkerFailed /\ Quiescent) => Drained

\* C21 without the crashes of the process: the same for the runs in which no
\* goroutine panics.
C21_DrainsUnlessPanicked == (AnyWorkerFailed /\ Quiescent /\ ~Panicked) => Drained

(***************************************************************************)
(* The error a stage reports when several of its workers fail.             *)
(***************************************************************************)
\* Runs of two readers whose opens of the source all fail, not all with the
\* same error, in the Encrypt or in the Decrypt job, and the runs without a
\* failure.
ErrorPlans ==
    {[BasePlan EXCEPT !.size = s, !.R = MaxReaders, !.T = t, !.fault = f] :
        s \in 1..FaultFileSize, t \in 1..MaxExecutors,
        f \in {NoFault} \cup {[job |-> j, kind |-> "opens", at |-> a] :
                                j \in 1..2, a \in 1..MaxReaders}}

SpecErrors == (\E p \in ErrorPlans : InitPlan(p)) /\ [][Next]_vars

\* C22 (SpecErrors): the first error wins.  Once a stage of a job holds the
\* error of a worker, no later completion of a worker replaces it: the error
\* the stage sends as its own is the one of the first failed worker it
\* observed.
C22_FirstErrorWins ==
    [][jobNo' = jobNo =>
          \A name \in {"read", "exec", "write"} :
              stage[name].err # NoErr => stage'[name].err = stage[name].err]_vars

(***************************************************************************)
(* The partition of the chunks among the workers of a stage: the loops of  *)
(* the workers (readWorker lines 44-51, executeWorker 92-99, writeWorker   *)
(* 194-201) on their own, for more workers and chunks than the runs above  *)
(* have.  plan.T is the number of workers, plan.size the number of slots.  *)
(***************************************************************************)
PartitionPlans ==
    {[BasePlan EXCEPT !.T = nw, !.size = n] :
        nw \in 1..MaxPartWorkers, n \in 0..MaxPartChunks}

\* The workers of the stage started, each at the first chunk of its own.
StartPartition ==
    /\ cond.pc = "partition"
    /\ cond' = [cond EXCEPT !.pc = "claiming", !.numChunks = plan.size]
    /\ stage' = [stage EXCEPT !.exec.numWorkers = plan.T]
    /\ executors' = [w \in 1..plan.T |-> NewExecutor(w, plan.T, plan.size)]
    /\ UNCHANGED <<plan, options, files, jobNo, job, results, pipelineErrors,
                   readChannels, executeChannels, writeChannels, workerErrors,
                   readers, writers, ghost>>

\* Worker w works on its chunk and goes on to its next one.
ClaimChunk(w) ==
    /\ cond.pc = "claiming"
    /\ executors[w].pc = "recv"
    /\ ghost' = [ghost EXCEPT !.events = @ \cup {<<"claim", executors[w].i, w>>}]
    /\ executors' = [executors EXCEPT ![w] =
          Handed(@, TRUE,
                 NextClaim(executors[w].i + 1, w, stage.exec.numWorkers, cond.numChunks),
                 cond.numChunks)]
    /\ UNCHANGED <<plan, options, files, jobNo, job, cond, results, pipelineErrors,
                   readChannels, executeChannels, writeChannels, stage, workerErrors,
                   readers, writers>>

NextPartition == StartPartition \/ \E w \in DOMAIN executors : ClaimChunk(w)

SpecPartition ==
    /\ \E p \in PartitionPlans : InitWith(p, initializeOptions, "partition")
    /\ [][NextPartition]_vars

\* The workers that have worked on chunk i.
ClaimedBy(i) == {w \in DOMAIN executors : <<"claim", i, w>> \in ghost.events}

\* C23 (SpecPartition): the partition of the work.  For every number N >= 1
\* of workers and every chunk i of 1..num_chunks exactly one worker w of 1..N
\* takes the chunk for its own, the one with i mod N = w mod N; in every
\* interleaving of the workers' loops no chunk is worked on by two workers,
\* each by the worker of that rule, and when all the workers are through none
\* is left.
C23_WorkPartition ==
    cond.pc = "claiming" =>
        \A i \in 1..cond.numChunks :
            /\ Cardinality({w \in 1..plan.T : Claims(i, w, plan.T)}) = 1
            /\ \A w \in 1..plan.T : Claims(i, w, plan.T) <=> i % plan.T = w % plan.T
            /\ Cardinality(ClaimedBy(i)) <= 1
            /\ \A w \in ClaimedBy(i) : i % plan.T = w % plan.T
            /\ (\A w \in DOMAIN executors : executors[w].pc = "exit") =>
                  Cardinality(ClaimedBy(i)) = 1

\* Three workers are through five chunks: the last worker had chunk 3, the
\* first one chunks 1 and 4.
C23_Witness ==
    /\ cond.pc = "claiming"
    /\ plan.T = 3
    /\ cond.numChunks = 5
    /\ \A w \in DOMAIN executors : executors[w].pc = "exit"
    /\ ClaimedBy(3) = {3}
    /\ ClaimedBy(1) = {1}
    /\ ClaimedBy(4) = {1}

(***************************************************************************)
(* The slots: one per chunk in each of the three arrays.                   *)
(***************************************************************************)
\* A slot that was written and read: empty and closed by its consumer.
UsedSlot == [buf |-> <<>>, closed |-> TRUE]

\* A state of a slot: new, holding its one value, or used.
SlotOk(ch) == ch = NewChan \/ (Len(ch.buf) = 1 /\ ~ch.closed) \/ ch = UsedSlot

\* A step from ch to chp of a slot: none, its one write or its one read.
SlotStep(ch, chp) ==
    \/ chp = ch
    \/ ch = NewChan /\ Len(chp.buf) = 1 /\ ~chp.closed
    \/ Len(ch.buf) = 1 /\ ~ch.closed /\ chp = UsedSlot

\* The steps of the slots of an array within a job.
SlotsStep(chs, chsp) ==
    Len(chs) = Len(chsp) => \A i \in 1..Len(chs) : SlotStep(chs[i], chsp[i])

\* The workers of a stage that are at chunk i, ready to receive from its
\* slot or to send its buffer on.
WorkersAt(ws, i) == {w \in DOMAIN ws : ws[w].i = i /\ ws[w].pc \in {"recv", "send"}}

\* Who holds the buffer read for chunk i, and who the buffer made of it: a
\* worker that is to send it on, or the slot it waits in.
ReadBufferHolders(i) ==
    {<<"reader", w>> : w \in {v \in DOMAIN readers :
                                readers[v].i = i /\ readers[v].pc = "send"}}
    \cup (IF executeChannels[i].buf # <<>> THEN {<<"slot", i>>} ELSE {})

MadeBufferHolders(i) ==
    {<<"executor", w>> : w \in {v \in DOMAIN executors :
                                  executors[v].i = i /\ executors[v].pc = "send"}}
    \cup (IF writeChannels[i].buf # <<>> THEN {<<"slot", i>>} ELSE {})

\* The state of the slots of a job: each is new, full or used; at most one
\* worker of a stage is at a chunk, none of them at a slot that was already
\* read (the workers of a process that has crashed are no more); no buffer
\* has two holders; after success every slot is used.
SlotsState ==
    /\ Len(readChannels) = cond.numChunks \/ readChannels = <<>>
    /\ Len(executeChannels) = Len(readChannels)
    /\ Len(writeChannels) = Len(readChannels)
    /\ \A i \in 1..Len(readChannels) :
          /\ SlotOk(readChannels[i])
          /\ SlotOk(executeChannels[i])
          /\ SlotOk(writeChannels[i])
          /\ Cardinality(WorkersAt(readers, i)) <= 1
          /\ Cardinality(WorkersAt(executors, i)) <= 1
          /\ Cardinality(WorkersAt(writers, i)) <= 1
          /\ (~Panicked /\ WorkersAt(readers, i) # {}) => ~readChannels[i].closed
          /\ (~Panicked /\ WorkersAt(executors, i) # {}) => ~executeChannels[i].closed
          /\ (~Panicked /\ WorkersAt(writers, i) # {}) => ~writeChannels[i].closed
          /\ Cardinality(ReadBufferHolders(i)) <= 1
          /\ Cardinality(MadeBufferHolders(i)) <= 1
          /\ Returned(jobNo, "ok") =>
                /\ readChannels[i] = UsedSlot
                /\ executeChannels[i] = UsedSlot
                /\ writeChannels[i] = UsedSlot

\* C24 (SpecFaults): the discipline of the slots.  In every run, with and
\* without failures, every slot of the three arrays is written at most once
\* and read at most once: it only ever goes from new to full, by the one
\* worker (or stage) that produces for its chunk, and from full to used, by
\* the one worker that is at its chunk; no worker comes to a slot that was
\* read before; no buffer is held by two at the same time; and when the job
\* has returned nil every slot was written once and read once.
C24_SlotDiscipline ==
    /\ []SlotsState
    /\ [][jobNo' = jobNo =>
            /\ SlotsStep(readChannels, readChannels')
            /\ SlotsStep(executeChannels, executeChannels')
            /\ SlotsStep(writeChannels, writeChannels')
            /\ \A i \in 1..Len(executeChannels) :
                  /\ (executeChannels[i] = NewChan /\ executeChannels'[i] # NewChan)
                        => WorkersAt(readers, i) # {}
                  /\ (executeChannels'[i] = UsedSlot /\ executeChannels[i] # UsedSlot)
                        => WorkersAt(executors, i) # {}
                  /\ (writeChannels[i] = NewChan /\ writeChannels'[i] # NewChan)
                        => WorkersAt(executors, i) # {}
                  /\ (writeChannels'[i] = UsedSlot /\ writeChannels[i] # UsedSlot)
                        => WorkersAt(writers, i) # {}]_vars

\* The Decrypt job of a file of two chunks has returned nil by two readers
\* and two executors, every slot used.
C24_Witness ==
    /\ jobNo = 2
    /\ Returned(2, "ok")
    /\ Len(readChannels) = 2
    /\ plan.R = 2
    /\ plan.T = 2
    /\ \A i \in 1..2 : /\ readChannels[i] = UsedSlot
                        /\ executeChannels[i] = UsedSlot
                        /\ writeChannels[i] = UsedSlot

(***************************************************************************)
(* The buffers in flight.                                                  *)
(***************************************************************************)
\* Runs without a failure of one reader and one executor on files of one
\* chunk up to files of more chunks than there are workers.
FlightPlans ==
    {[BasePlan EXCEPT !.size = s] : s \in 1..MaxFlightSize}

SpecFlight == (\E p \in FlightPlans : InitPlan(p)) /\ [][Next]_vars

\* The chunks whose buffer was read from the source and is not yet written
\* to the target.
InFlight ==
    {i \in 1..Len(executeChannels) :
        /\ \/ executeChannels[i] # NewChan
           \/ \E w \in DOMAIN readers : readers[w].i = i /\ readers[w].pc = "send"
        /\ writeChannels[i] # UsedSlot}

\* C25 (SpecFlight): backpressure.  In every state the number of buffers
\* that were read and are not yet written is at most the number of workers
\* of the job, readers, executors and writers together, however many chunks
\* the file has.
C25_Backpressure ==
    Cardinality(InFlight) <= job.NumReaders + job.NumExecutors + job.NumWriters

\* No worker ever waits at a send: the slot of its chunk always has room.
SendsNeverBlock ==
    /\ \A w \in DOMAIN readers : readers[w].pc # "send"
    /\ \A w \in DOMAIN executors : executors[w].pc # "send"

\* The reader can have read every chunk of the file before one is written.
AllInFlight == Cardinality(InFlight) = cond.numChunks /\ cond.numChunks = 5

(***************************************************************************)
(* The chunks of a decryption.                                             *)
(***************************************************************************)
\* Chunk i of the source as the Encrypt job of the run seals it.
SealedChunk(i) == GCMSeal(Key(plan.encKey), NonceOf(RandFor(i)), SourceChunk(i))

\* The bytes of the file from offset start up to offset end.
BytesOf(data, start, end) == SubSeq(data, start + 1, end)

\* C26 (Spec): the chunk plan of a decryption fits the layout written.  For
\* the file an Encrypt job made with chunk size C, decrypted with the same
\* chunk size, there are as many requests as the file has chunks, the request
\* of chunk i (counted from 0) begins at eoh + i * (12 + C + 16), with eoh =
\* 2 + HLI, and ends 12 + C + 16 further or at the end of the file, whichever
\* is less, and these are the bytes of sealed chunk i, the last one shorter
\* when the last chunk of the source was.
C26_DecryptionChunkPlan ==
    (jobNo = 2 /\ cond.pc \notin {"start", "panicked"} /\ readChannels # <<>>) =>
        /\ cond.endOfHeader = 2 + HLI
        /\ Len(readChannels) = NumChunksOf(plan.size, bytesFromMB(plan.encMB))
        /\ \A i \in 1..Len(readChannels) :
              Requested(i) =>
                 /\ readChannels[i].buf[1].ChunkID = i
                 /\ readChannels[i].buf[1].RangeStart =
                       2 + HLI + (i - 1) * (12 + bytesFromMB(plan.decMB) + 16)
                 /\ readChannels[i].buf[1].RangeEnd =
                       Min(readChannels[i].buf[1].RangeStart
                              + 12 + bytesFromMB(plan.decMB) + 16,
                           Len(files["enc"].data))
                 /\ BytesOf(files["enc"].data, readChannels[i].buf[1].RangeStart,
                            readChannels[i].buf[1].RangeEnd) = SealedChunk(i)
                 /\ Len(SealedChunk(i)) = 12 + Len(SourceChunk(i)) + 16

\* The requests of the Decrypt job of a file of three chunks, the last one
\* short, wait in their slots.
C26_Witness ==
    /\ jobNo = 2
    /\ Len(readChannels) = 3
    /\ plan.size = 5
    /\ \A i \in 1..3 : Requested(i)
    /\ readChannels[3].buf[1].RangeEnd = Len(files["enc"].data)
    /\ readChannels[3].buf[1].RangeEnd - readChannels[3].buf[1].RangeStart = 12 + 1 + 16

(***************************************************************************)
(* The ranges of the requests.                                             *)
(***************************************************************************)
\* C27 (SpecTamper): the invariant of the read requests.  Every request the
\* read stage seeds, for an encryption and for a decryption with whatever
\* header was parsed, has the id of its slot and a range within the source,
\* 0 <= start <= end <= size, not empty unless it is the last one, so that no
\* reader has a negative number of bytes to read.
C27_ReadRequestInvariant ==
    \A i \in 1..Len(readChannels) :
        Requested(i) =>
            /\ readChannels[i].buf[1].ChunkID = i
            /\ 0 <= readChannels[i].buf[1].RangeStart
            /\ readChannels[i].buf[1].RangeStart <= readChannels[i].buf[1].RangeEnd
            /\ readChannels[i].buf[1].RangeEnd <= Len(files[job.SourceFilename].data)
            /\ i < Len(readChannels) =>
                  readChannels[i].buf[1].RangeStart < readChannels[i].buf[1].RangeEnd

(***************************************************************************)
(* A Decrypt job on a file that is no container.                           *)
(***************************************************************************)
\* The container an Encrypt job makes of the source of plan p.
ContainerOfPlan(p) ==
    getCompleteEncryptedFileHeaderAsBytes(
        NewHeader(NumChunksOf(p.size, bytesFromMB(p.encMB)), p.encMB))
    \o Flatten([i \in 1..NumChunksOf(p.size, bytesFromMB(p.encMB)) |->
                  GCMSeal(Key(p.encKey), NonceOf(p.rng * i),
                          SubSeq(PlainFile(p.seed, p.size),
                                 (i - 1) * bytesFromMB(p.encMB) + 1,
                                 Min(i * bytesFromMB(p.encMB), p.size)))])

\* The files given to the Decrypt job, made of a container v whose header is
\* h bytes long: v itself ("none"); files of fewer than 3 bytes ("short");
\* files whose indicator says more than the bytes that follow it, v cut in
\* or right before the end of its header, v with a large indicator, and the
\* JSON of v on its own under an indicator 5 too large ("hli"); files whose
\* header is no JSON, the header cut by its last byte or empty, its opening
\* brace a bracket, its closing brace a comma, a lone brace ("json").
FileDraws(v, h) ==
    {[kind |-> "none", data |-> v]}
    \cup {[kind |-> "short", data |-> SubSeq(v, 1, k)] : k \in 0..2}
    \cup {[kind |-> "hli", data |-> d] :
            d \in {SubSeq(v, 1, 3), SubSeq(v, 1, 2 + h - 1), [v EXCEPT ![2] = 255],
                   bytesFromUint16(h + 5) \o SubSeq(v, 3, 2 + h)}}
    \cup {[kind |-> "json", data |-> d] :
            d \in {[v EXCEPT ![1] = h - 1], [v EXCEPT ![1] = 0], [v EXCEPT ![3] = 91],
                   [v EXCEPT ![2 + h] = 44], <<1, 0, 123>>}}

\* The Decrypt job of plan p given the file of draw d.
InitDecryptOf(p, d) ==
    /\ plan = p
    /\ options = initializeOptions
    /\ files = [f \in {"src", "enc", "dec"} |->
                  IF f = "src" THEN [exists |-> TRUE, data |-> PlainFile(p.seed, p.size)]
                  ELSE IF f = "enc" THEN [exists |-> TRUE, data |-> d.data]
                  ELSE [exists |-> FALSE, data |-> <<>>]]
    /\ jobNo = 2
    /\ job = DecryptJob(p)
    /\ cond = NewCond
    /\ results = [j \in 1..2 |-> NoResult]
    /\ pipelineErrors = <<>>
    /\ readChannels = <<>>
    /\ executeChannels = <<>>
    /\ writeChannels = <<>>
    /\ stage = IdleStages
    /\ workerErrors = NoWorkerErrors
    /\ readers = <<>>
    /\ executors = <<>>
    /\ writers = <<>>
    /\ ghost = [NoGhost EXCEPT !.events = {<<"draw", d.kind>>}]

MalformedPlans ==
    {[BasePlan EXCEPT !.size = s, !.R = r, !.T = t] :
        s \in 1..FaultFileSize, r \in 1..MaxReaders, t \in 1..MaxExecutors}

InitMalformed ==
    \E p \in MalformedPlans :
        \E d \in FileDraws(ContainerOfPlan(p), uint16FromBytes(ContainerOfPlan(p))) :
            InitDecryptOf(p, d)

NextDecrypt ==
    \/ ConductorStep
    \/ ReadStageStep
    \/ ExecuteStageStep
    \/ WriteStageStep
    \/ \E w \in DOMAIN readers : ReadWorkerStep(w)
    \/ \E w \in DOMAIN executors : ExecuteWorkerStep(w)
    \/ \E w \in DOMAIN writers : WriteWorkerStep(w)

SpecMalformed == InitMalformed /\ [][NextDecrypt]_vars

\* The kind of file the Decrypt job was given.
Drawn(kind) == <<"draw", kind>> \in ghost.events

\* C28 (SpecMalformed): a malformed container.  For a file of fewer than 3
\* bytes, a file whose indicator says more than the bytes that follow it and
\* a file whose header is no JSON, reading the header gives a format error
\* and the Decrypt job returns that error, before any stage is started and
\* without a target; the header of a container is read without an error and
\* its Decrypt job ends with nil.
C28_MalformedContainer ==
    /\ (Drawn("short") \/ Drawn("hli") \/ Drawn("json")) =>
          /\ getEncryptedFileHeaderFromFile(files["enc"].data).err = Err("format")
          /\ cond.pc # "start" =>
                /\ cond.pc = "returned"
                /\ Returned(2, "error")
                /\ results[2].err = Wrap("header", Err("format"))
                /\ ~StageStarted
                /\ ~files["dec"].exists
    /\ Drawn("short") => Len(files["enc"].data) < 3
    /\ Drawn("hli") => /\ Len(files["enc"].data) >= 3
                       /\ HLI > Len(files["enc"].data) - 2
    /\ Drawn("json") => /\ Len(files["enc"].data) >= 3
                        /\ HLI <= Len(files["enc"].data) - 2
    /\ Drawn("none") =>
          /\ getEncryptedFileHeaderFromFile(files["enc"].data).err = NoErr
          /\ Quiescent => Returned(2, "ok") /\ files["dec"].data = files["src"].data

\* The Decrypt job has returned the error for a file that is an indicator
\* and a whole JSON header, 5 bytes shorter than the indicator says.
C28_Witness ==
    /\ Drawn("hli")
    /\ cond.pc = "returned"
    /\ Returned(2, "error")
    /\ encryptionHeaderFromBytes(
           SubSeq(files["enc"].data, 3, Len(files["enc"].data))).ok
    /\ HLI = Len(files["enc"].data) - 2 + 5

(***************************************************************************)
(* The codec on what a Decrypt job reads as a chunk.  The file is a header *)
(* of one chunk and then a blob no longer than a sealed chunk, which the   *)
(* reader hands to the execute worker as it is.                            *)
(***************************************************************************)
\* The blobs made of the sealed chunk v: v itself, "sealed" under the key of
\* the Decrypt job and "otherkey" under another one; v cut to fewer than 28
\* bytes (none, fewer than a nonce, a nonce, more), "short"; v with one byte
\* of its nonce, of what follows it or of its tag changed, "tampered".
BlobDraws(v, sameKey) ==
    {[kind |-> IF sameKey THEN "sealed" ELSE "otherkey", data |-> v]}
    \cup {[kind |-> "short", data |-> SubSeq(v, 1, k)] :
            k \in {0, 1, AESNonceSize - 1, AESNonceSize, AESNonceSize + 1,
                   AESNonceSize + AESTagSize - 1}}
    \cup {[kind |-> "tampered", data |-> [v EXCEPT ![j] = (@ + 1) % 256]] :
            j \in {1, AESNonceSize, AESNonceSize + 1, Len(v)}}

CodecPlans ==
    {[BasePlan EXCEPT !.size = s, !.decKey = dk, !.T = t] :
        s \in 0..bytesFromMB(1), dk \in 1..MaxKeys, t \in 1..MaxExecutors}

InitCodec ==
    \E p \in CodecPlans :
        \E d \in BlobDraws(GCMSeal(Key(p.encKey), NonceOf(p.rng),
                                   PlainFile(p.seed, p.size)),
                           p.decKey = p.encKey) :
            InitDecryptOf(p, [kind |-> d.kind,
                              data |-> getCompleteEncryptedFileHeaderAsBytes(
                                           NewHeader(1, p.decMB)) \o d.data])

SpecCodec == InitCodec /\ [][NextDecrypt]_vars

\* The blob of the file: what follows its header.
Blob == SubSeq(files["enc"].data, 2 + HLI + 1, Len(files["enc"].data))

\* The execute worker of chunk 1 has taken the blob from its slot.
BlobTaken == Len(executeChannels) = 1 /\ executeChannels[1] = UsedSlot

\* The execute worker of chunk 1 has stopped with an error to report.
OpenFailed ==
    /\ ~Panicked
    /\ \E w \in DOMAIN executors :
          /\ executors[w].i = 1
          /\ executors[w].pc \in {"exit", "done"}
          /\ executors[w].err # NoErr
    /\ ~decryptBlobAESGCM256(Blob, job.KeyMaterial).panic
    /\ decryptBlobAESGCM256(Blob, job.KeyMaterial).err # NoErr

\* The blob was opened into the source.
Opened28 ==
    /\ ~Panicked
    /\ decryptBlobAESGCM256(Blob, job.KeyMaterial).err = NoErr
    /\ decryptBlobAESGCM256(Blob, job.KeyMaterial).data = files["src"].data
    /\ Len(files["src"].data) = Len(Blob) - 28

\* C29 (SpecCodec): opening a chunk.  Once the execute worker has taken the
\* blob, decryptBlobAESGCM256 has returned an error, without a crash of the
\* worker, for every blob shorter than 28 bytes, those shorter than the 12
\* bytes of the nonce and the empty one among them, and for every blob whose
\* tag does not verify; for a blob encryptBlobAESGCM256 made under the same
\* key it has returned the plaintext, 28 bytes shorter than the blob.
C29_ChunkOpen ==
    BlobTaken =>
        /\ Len(Blob) < 28 => OpenFailed
        /\ (Drawn("tampered") \/ Drawn("otherkey")) => OpenFailed
        /\ Drawn("sealed") => Opened28

\* The same for the blobs that hold a whole nonce at least.
C29_ChunkOpenFromNonce ==
    (BlobTaken /\ Len(Blob) >= AESNonceSize) =>
        /\ Len(Blob) < 28 => OpenFailed
        /\ (Drawn("tampered") \/ Drawn("otherkey")) => OpenFailed
        /\ Drawn("sealed") => Opened28

(***************************************************************************)
(* The write stage under jobs that ask for any number of write workers,    *)
(* handed to runPipelineJob as the end-to-end test does (Writers 1 and 4). *)
(***************************************************************************)
WriterPlans ==
    {[BasePlan EXCEPT !.size = s, !.W = w, !.T = t] :
        s \in 0..MaxFileSize, w \in 0..MaxWriters, t \in 1..MaxExecutors}

SpecWriters == (\E p \in WriterPlans : InitPlan(p)) /\ [][Next]_vars

\* The write workers that hold the target open.
TargetHolders == {w \in DOMAIN writers : writers[w].fd}

\* C30 (SpecWriters): whatever number of writers the job asks for, 0 and 4
\* among them, a started write stage runs exactly one write worker; that
\* worker claims every chunk, so the chunks are written in the order 1, 2, ...
\* and a job that returned nil wrote them all; at most one worker holds the
\* target open, and the one that wrote a chunk was worker 1.
C30_SingleWriter ==
    /\ stage.write.pc # "idle" =>
          /\ stage.write.numWorkers = 1
          /\ Len(writers) = 1
          /\ \A i \in 1..Len(writeChannels) :
                WriteOrderNext(i, 1, stage.write.numWorkers, Len(writeChannels)) = i
    /\ Cardinality(TargetHolders) <= 1
    /\ TargetHolders \subseteq {1}
    /\ \A k \in 1..Len(ghost.written) : ghost.written[k].id = k
    /\ Returned(jobNo, "ok") => Len(ghost.written) = Len(writeChannels)

\* A Decrypt job that asked for 4 writers returned nil after its one writer
\* wrote three chunks.
C30_Witness ==
    /\ jobNo = 2
    /\ job.NumWriters = MaxWriters
    /\ Returned(2, "ok")
    /\ Len(writers) = 1
    /\ Len(ghost.written) = 3

(***************************************************************************)
(* The completion signals: a worker's deferred send into the aggregation   *)
(* channel of its stage, a stage's deferred send into pipelineErrors.      *)
(***************************************************************************)
\* The workers of a stage.
Pool(name) ==
    CASE name = "read" -> readers
      [] name = "exec" -> executors
      [] name = "write" -> writers

StageNames == {"read", "exec", "write"}

\* The workers of the stage that have sent their completion.
Completed(name) == {w \in DOMAIN Pool(name) : Pool(name)[w].pc = "done"}

\* The stages that are running, and those that have sent their completion.
RunningStages == {name \in StageNames : stage[name].pc \in {"seed", "collect"}}
DoneStages == {name \in StageNames : stage[name].pc = "done"}

\* No completion is sent twice, none waits for room and none finds its
\* channel closed: every completion a stage's workers sent is in the
\* aggregation channel or was collected; a worker about to send finds the
\* channel open with room; the channel is closed only after every worker
\* sent; every completion the stages sent is in pipelineErrors or was
\* received, and the stages still running find room for theirs.
C31_SendsNeverBlock ==
    /\ \A name \in StageNames :
          /\ Cardinality(Completed(name))
                = Len(workerErrors[name].buf) + stage[name].got
          /\ Len(workerErrors[name].buf) + stage[name].got
                <= stage[name].numWorkers
          /\ workerErrors[name].closed => Completed(name) = DOMAIN Pool(name)
          /\ \A w \in DOMAIN Pool(name) :
                (Pool(name)[w].pc = "exit" /\ ~Panicked) =>
                    /\ ~workerErrors[name].closed
                    /\ Len(workerErrors[name].buf) < stage[name].numWorkers
    /\ Cardinality(DoneStages) = Len(pipelineErrors) + Len(cond.recvd)
    /\ Len(pipelineErrors) + Cardinality(RunningStages) <= PipelineCap

\* C31 (SpecFaults): stage completion signalling.  In every run each worker
\* sends exactly one completion to the aggregation channel of its stage and
\* each stage at most one to the channel of capacity 3: no completion is sent
\* twice, waits for room or finds its channel closed, also after
\* runPipelineJob has returned, and when nothing can move any more every
\* worker has sent its own.
C31_CompletionSignalling ==
    /\ C31_SendsNeverBlock
    /\ (Quiescent /\ ~Panicked) =>
          \A name \in StageNames : Completed(name) = DOMAIN Pool(name)

(***************************************************************************)
(* What the write worker accepted and what its target holds.               *)
(***************************************************************************)
\* The bytes the write worker handed to its bufio.Writer: the header of an
\* encryption, then every chunk it took from a slot.
Accepted ==
    (IF job.Operation = "Encryption"
     THEN getCompleteEncryptedFileHeaderAsBytes(stage.write.header) ELSE <<>>)
    \o Flatten([k \in 1..Len(ghost.written) |-> ghost.written[k].data])

\* The write workers that have sent nil as their completion.
ReportedOk == {w \in DOMAIN writers : writers[w].pc = "done" /\ writers[w].err = NoErr}

\* C32 (Spec): flush on exit.  When the write worker has reported ok, every
\* byte it accepted, the header included, is in the target file and nothing
\* is left in the write buffer, for every number of chunks, none included.
C32_FlushOnExit ==
    \A w \in ReportedOk :
        /\ writers[w].buf = <<>>
        /\ files[job.TargetFilename].data = Accepted

\* The same for the jobs whose chunk loop runs at least once.
C32_FlushAfterChunk ==
    \A w \in ReportedOk :
        Len(writeChannels) > 0 =>
            /\ writers[w].buf = <<>>
            /\ files[job.TargetFilename].data = Accepted

(***************************************************************************)
(* The nonces of the chunks an Encrypt job sealed.                         *)
(***************************************************************************)
\* The nonce prefix of the k-th chunk written.
NoncePrefix(k) == SubSeq(ghost.written[k].data, 1, AESNonceSize)

\* The chunks written so far by the Encrypt job.
Sealed == IF jobNo = 1 THEN 1..Len(ghost.written) ELSE {}

NonceDrawnTwice ==
    /\ Returned(1, "ok")
    /\ \E k, l \in Sealed : k # l /\ NoncePrefix(k) = NoncePrefix(l)

(***************************************************************************)
(* The sends into the slots.                                               *)
(***************************************************************************)
\* The slots that the workers ws, about to work on a chunk, will send into.
SendTargets(ws, out) ==
    {out[ws[w].i] : w \in {v \in DOMAIN ws : ws[v].pc \in {"recv", "send"}}}

\* Slot ch holds the one value sent into it and is open.
Published(ch) == Len(ch.buf) = 1 /\ ~ch.closed

\* C34 (SpecFaults): publishing never blocks.  Every slot is a channel of
\* capacity 1 that takes one send: the read stage about to seed finds every
\* request slot empty and open, a read worker about to work on a chunk finds
\* the read-to-transform slot of that chunk empty and open, an execute worker
\* the transform-to-write slot; a slot never holds two values and no worker
\* ever waits at a send, so what waits at a slot waits at a receive.
C34_PublishingNeverBlocks ==
    /\ stage.read.pc = "seed" =>
          \A i \in 1..Len(readChannels) : readChannels[i] = NewChan
    /\ SendTargets(readers, executeChannels) \subseteq {NewChan}
    /\ SendTargets(executors, writeChannels) \subseteq {NewChan}
    /\ \A i \in 1..Len(readChannels) :
          /\ Len(readChannels[i].buf) <= 1
          /\ Len(executeChannels[i].buf) <= 1
          /\ Len(writeChannels[i].buf) <= 1
    /\ SendsNeverBlock

\* Two readers and two executors at work on a file of two chunks: the
\* request of chunk 1 published to its read worker, the buffer of chunk 2
\* published to the write worker, and the execute worker of chunk 1 waiting
\* at the receive of a slot nothing was sent into yet.
C34_Witness ==
    /\ Len(readers) = 2
    /\ Len(executors) = 2
    /\ Len(readChannels) = 2
    /\ Published(readChannels[1])
    /\ Published(writeChannels[2])
    /\ \E w \in DOMAIN executors :
          executors[w].pc = "recv" /\ executeChannels[executors[w].i] = NewChan

(***************************************************************************)
(* What runPipelineJob does before it starts its stages.                   *)
(***************************************************************************)
\* The file f as it was before the run.
InitialFile(f) ==
    IF f = "src" THEN [exists |-> plan.srcExists, data |-> PlainFile(plan.seed, plan.size)]
    ELSE IF (f = "enc" /\ plan.encOld) \/ (f = "dec" /\ plan.decOld)
    THEN [exists |-> TRUE, data |-> OldData]
    ELSE [exists |-> FALSE, data |-> <<>>]

\* The header getEncryptedFileHeaderFromFile reads from the source of the job.
SourceHeader == getEncryptedFileHeaderFromFile(files[job.SourceFilename].data)

\* The source of the job cannot be opened or stat'ed, or the job is a
\* decryption and the header of the source cannot be read and parsed.
PreflightFails ==
    \/ ~files[job.SourceFilename].exists
    \/ Fault("stat", 0)
    \/ job.Operation = "Decryption" /\ SourceHeader.err # NoErr

\* No stage and no worker was started and no slot made.
NothingStarted ==
    /\ stage = IdleStages
    /\ readers = <<>> /\ executors = <<>> /\ writers = <<>>
    /\ readChannels = <<>> /\ executeChannels = <<>> /\ writeChannels = <<>>
    /\ pipelineErrors = <<>>
    /\ workerErrors = NoWorkerErrors

\* C35 (SpecFaults): pre-flight failures leave the target untouched.  Once
\* runPipelineJob has run its first lines on a source that cannot be opened
\* or stat'ed, or, for a decryption, whose header cannot be read and parsed,
\* it has returned an error without receiving anything, no stage and no worker
\* was started, and the target is the file it was before the run, with and
\* without force; and whenever the read stage of a decryption was started,
\* the header had been read and gave the number of slots and the offset of
\* the first chunk.
C35_PreflightLeavesTarget ==
    /\ (PreflightFails /\ cond.pc # "start") =>
          /\ cond.pc = "returned"
          /\ Returned(jobNo, "error")
          /\ cond.recvd = <<>>
          /\ NothingStarted
          /\ files[job.TargetFilename] = InitialFile(job.TargetFilename)
    /\ (job.Operation = "Decryption" /\ stage.read.pc # "idle") =>
          /\ SourceHeader.err = NoErr
          /\ cond.endOfHeader = SourceHeader.endOfHeader
          /\ Len(readChannels) = SourceHeader.h.NumChunks

\* A Decrypt job with force over an old target returned the error of a
\* header that cannot be read, and the old target is as it was.
C35_Witness ==
    /\ jobNo = 2
    /\ job.ForceOperation
    /\ files["enc"].exists
    /\ SourceHeader.err # NoErr
    /\ Returned(2, "error")
    /\ files["dec"] = [exists |-> TRUE, data |-> OldData]

\* An Encrypt job with force returned the error of a source that cannot be
\* stat'ed.
C35_StatWitness ==
    /\ jobNo = 1
    /\ job.ForceOperation
    /\ Fault("stat", 0)
    /\ Returned(1, "error")

(***************************************************************************)
(* The file descriptors of the workers.                                    *)
(***************************************************************************)
\* The workers that hold a file open: read workers the source, the write
\* worker the target.
OpenDescriptors ==
    {<<"read", w>> : w \in {v \in DOMAIN readers : readers[v].fd}}
    \cup {<<"write", w>> : w \in {v \in DOMAIN writers : writers[v].fd}}

\* The read and write workers that have sent their completion.
SentCompletion ==
    {<<"read", w>> : w \in Completed("read")}
    \cup {<<"write", w>> : w \in Completed("write")}

\* C36 (SpecFaults): descriptors are closed before completion is signalled.
\* A read worker or write worker whose completion was sent has closed its
\* file, so no worker that has sent holds a descriptor, and when
\* runPipelineJob has received nil from all three stages and returned nil no
\* descriptor of the job's workers is open.
C36_ClosedBeforeCompletion ==
    /\ SentCompletion \cap OpenDescriptors = {}
    /\ (cond.pc = "returned" /\ Returned(jobNo, "ok")) =>
          /\ Len(cond.recvd) = PipelineCap
          /\ OpenDescriptors = {}
          /\ SentCompletion = ({"read"} \X DOMAIN readers) \cup ({"write"} \X DOMAIN writers)

\* A Decrypt job of two readers that read and wrote two chunks returned nil,
\* every descriptor closed.
C36_Witness ==
    /\ jobNo = 2
    /\ Returned(2, "ok")
    /\ Len(readers) = 2
    /\ Len(writers) = 1
    /\ Len(ghost.written) = 2
    /\ OpenDescriptors = {}

\* Two read workers and the write worker hold their files open at once.
DescriptorsOpen == Cardinality(OpenDescriptors) = 3
====
